---- MODULE Spec2Model ----
(***************************************************************************)
(* A model of the graze interpreter's evaluator: the Scalar numeric model  *)
(* (stdlib/scalar.rs), the Point and Vector types (stdlib/point.rs,        *)
(* stdlib/vector.rs), the built-in functions and their reverse_pop!        *)
(* operand discipline (stdlib.rs, stdlib/basic.rs), the Stack and the      *)
(* Runtime's execute / execute_instruction / execute_expression /          *)
(* execute_argument (runtime.rs) and the Value -> DrawCommand conversion   *)
(* (output.rs).                                                            *)
(*                                                                         *)
(* Numbers.  i64 / u64 are modelled with IntBits bits instead of 64, so    *)
(* that the ends of the integer range are reachable.  An f64 is modelled   *)
(* by the real number it denotes where that is a rational (rounding is not *)
(* modelled), by the positive root of a rational for an inexact sqrt, and  *)
(* by the IEEE specials NaN, +inf, -inf, +0 and -0.                        *)
(***************************************************************************)
EXTENDS Integers, Sequences, FiniteSets, TLC

VARIABLES
    stack,            \* Runtime.stack.stack : Vec<Value>, top at the end
    variables,        \* Runtime.variables : HashMap<SmolStr, Value>
    draw,             \* the commands the Backend's draw() has received, in order
    pc,               \* where the host / execute / execute_instruction stands
    result,           \* what the last execute call (or built-in call) returned
    steps,            \* Expressions evaluated so far on this Runtime
    last,             \* the Expression (or built-in) evaluated last, and its outcome
    bound,            \* history: the value each successful top-level Let returned last
    before,           \* history: the stack a directly called built-in or expression started from
    overflow_checks,  \* build profile: TRUE = debug (overflow panics), FALSE = release (wraps)
    source,           \* the StringTokenizer: the characters not yet consumed, and its position
    program,          \* parse_file's Program.instructions so far
    instruction       \* parse_instruction's result.expressions so far

vars == <<stack, variables, draw, pc, result, steps, last, bound, before,
          overflow_checks, source, program, instruction>>

-----------------------------------------------------------------------------
(* Bounds of the model *)

IntBits == 5        \* width of the modelled i64 / u64 (64 in the program)
MaxSteps == 4       \* Expressions the host's Programs hold in all, over all execute calls
MaxChars == 3       \* characters of a source text handed to the tokenizer alone
MaxPeeks == 2       \* peek_token calls between two read_token calls
MaxLexemes == 4     \* lexemes of a source text handed to parse_file

-----------------------------------------------------------------------------
(* Integers of the modelled width *)

RECURSIVE Pow2(_)
Pow2(n) == IF n = 0 THEN 1 ELSE 2 * Pow2(n - 1)

I64_MAX == Pow2(IntBits - 1) - 1
I64_MIN == -Pow2(IntBits - 1)
U64_MAX == Pow2(IntBits) - 1

Abs(i) == IF i < 0 THEN -i ELSE i
Sgn(i) == IF i < 0 THEN -1 ELSE 1

RECURSIVE GCD(_, _)
GCD(a, b) == IF b = 0 THEN a ELSE GCD(b, a % b)

\* two's-complement wrap-around of an out-of-range result
Wrap(i) == ((i - I64_MIN) % Pow2(IntBits)) + I64_MIN

-----------------------------------------------------------------------------
(* f64 *)

NaN == [k |-> "nan"]
Inf(s) == [k |-> "inf", s |-> s]
\* zero keeps its sign in d: +0.0 is n = 0, d = 1 and -0.0 is n = 0, d = -1
Zero(s) == [k |-> "q", n |-> 0, d |-> s]
Q(n, d) ==
    IF n = 0 THEN Zero(Sgn(d))
    ELSE LET g == GCD(Abs(n), Abs(d))
         IN [k |-> "q", n |-> (Sgn(n) * Sgn(d) * Abs(n)) \div g, d |-> Abs(d) \div g]
Root(n, d) == [k |-> "root", n |-> n, d |-> d]

FSign(x) == IF x.k = "inf" THEN x.s
            ELSE IF x.k = "root" THEN 1
            ELSE IF x.n > 0 THEN 1 ELSE IF x.n < 0 THEN -1 ELSE x.d
FIsZero(x) == x.k = "q" /\ x.n = 0
FDen(x) == Abs(x.d)

FNeg(x) == CASE x.k = "nan" -> NaN
             [] x.k = "inf" -> Inf(-x.s)
             [] x.k = "q" -> IF x.n = 0 THEN Zero(-x.d) ELSE [x EXCEPT !.n = -x.n]

\* a + b on f64
FAdd(x, y) ==
    CASE x.k = "nan" \/ y.k = "nan" -> NaN
      [] x.k = "inf" /\ y.k = "inf" -> IF x.s = y.s THEN x ELSE NaN
      [] x.k = "inf" /\ y.k = "q" -> x
      [] x.k = "q" /\ y.k = "inf" -> y
      [] x.k = "q" /\ y.k = "q" ->
            LET n == x.n * FDen(y) + y.n * FDen(x)
            IN IF n = 0
               THEN (IF FIsZero(x) /\ FIsZero(y) /\ x.d = -1 /\ y.d = -1
                     THEN Zero(-1) ELSE Zero(1))
               ELSE Q(n, FDen(x) * FDen(y))

\* a - b on f64
FSub(x, y) == FAdd(x, FNeg(y))

\* a * b on f64
FMul(x, y) ==
    CASE x.k = "nan" \/ y.k = "nan" -> NaN
      [] x.k = "inf" /\ y.k = "inf" -> Inf(x.s * y.s)
      [] x.k = "inf" /\ y.k = "q" -> IF FIsZero(y) THEN NaN ELSE Inf(x.s * FSign(y))
      [] x.k = "q" /\ y.k = "inf" -> IF FIsZero(x) THEN NaN ELSE Inf(FSign(x) * y.s)
      [] x.k = "q" /\ y.k = "q" ->
            IF x.n * y.n = 0 THEN Zero(FSign(x) * FSign(y))
            ELSE Q(x.n * y.n, FDen(x) * FDen(y))

\* a / b on f64
FDiv(x, y) ==
    CASE x.k = "nan" \/ y.k = "nan" -> NaN
      [] x.k = "inf" /\ y.k = "inf" -> NaN
      [] x.k = "inf" /\ y.k = "q" -> Inf(x.s * FSign(y))
      [] x.k = "q" /\ y.k = "inf" -> Zero(FSign(x) * y.s)
      [] x.k = "q" /\ y.k = "q" ->
            IF FIsZero(y) THEN (IF FIsZero(x) THEN NaN ELSE Inf(FSign(x) * FSign(y)))
            ELSE IF FIsZero(x) THEN Zero(FSign(x) * FSign(y))
            ELSE Q(x.n * FDen(y), FDen(x) * y.n)

IsSquare(n) == \E r \in 0..n : r * r = n
ISqrt(n) == CHOOSE r \in 0..n : r * r = n

\* f64::sqrt
FSqrt(x) ==
    CASE x.k = "nan" -> NaN
      [] x.k = "inf" -> IF x.s = 1 THEN x ELSE NaN
      [] x.k = "q" ->
            IF x.n < 0 THEN NaN
            ELSE IF x.n = 0 THEN x
            ELSE IF IsSquare(x.n) /\ IsSquare(x.d) THEN Q(ISqrt(x.n), ISqrt(x.d))
            ELSE Root(x.n, x.d)

\* x >= 0.0 on f64 (false for NaN, true for -0.0)
FGeZero(x) ==
    CASE x.k = "nan" -> FALSE
      [] x.k = "inf" -> x.s = 1
      [] x.k = "root" -> TRUE
      [] x.k = "q" -> x.n >= 0

\* i as f64
I64AsF64(i) == Q(i, 1)

-----------------------------------------------------------------------------
(* Scalar: stdlib/scalar.rs *)

Integer(i) == [t |-> "Integer", v |-> i]
Float(f) == [t |-> "Float", f |-> f]
\* the outcome of an operation that panics (arithmetic overflow, division by zero)
PanicS == [t |-> "panic"]
IsPanic(r) == "t" \in DOMAIN r /\ r.t = "panic"

\* i64 + - * : `attempt to ... with overflow` panics when overflow checks are on
\* (debug profile) and wraps when they are off (release profile)
I64Arith(i) ==
    IF I64_MIN <= i /\ i <= I64_MAX THEN Integer(i)
    ELSE IF overflow_checks THEN PanicS
    ELSE Integer(Wrap(i))

\* impl From<Scalar> for f64
ScalarAsF64(s) == IF s.t = "Integer" THEN I64AsF64(s.v) ELSE s.f

\* impl Add<Scalar> for Scalar
ScalarAdd(a, b) ==
    CASE IsPanic(a) \/ IsPanic(b) -> PanicS
      [] a.t = "Integer" /\ b.t = "Integer" -> I64Arith(a.v + b.v)
      [] a.t = "Float" /\ b.t = "Float" -> Float(FAdd(a.f, b.f))
      [] a.t = "Integer" /\ b.t = "Float" -> Float(FAdd(I64AsF64(a.v), b.f))
      [] a.t = "Float" /\ b.t = "Integer" -> Float(FAdd(a.f, I64AsF64(b.v)))

\* impl Sub<Scalar> for Scalar
ScalarSub(a, b) ==
    CASE IsPanic(a) \/ IsPanic(b) -> PanicS
      [] a.t = "Integer" /\ b.t = "Integer" -> I64Arith(a.v - b.v)
      [] a.t = "Float" /\ b.t = "Float" -> Float(FSub(a.f, b.f))
      [] a.t = "Integer" /\ b.t = "Float" -> Float(FSub(I64AsF64(a.v), b.f))
      [] a.t = "Float" /\ b.t = "Integer" -> Float(FSub(a.f, I64AsF64(b.v)))

\* impl Mul<Scalar> for Scalar
ScalarMul(a, b) ==
    CASE IsPanic(a) \/ IsPanic(b) -> PanicS
      [] a.t = "Integer" /\ b.t = "Integer" -> I64Arith(a.v * b.v)
      [] a.t = "Float" /\ b.t = "Float" -> Float(FMul(a.f, b.f))
      [] a.t = "Integer" /\ b.t = "Float" -> Float(FMul(I64AsF64(a.v), b.f))
      [] a.t = "Float" /\ b.t = "Integer" -> Float(FMul(a.f, I64AsF64(b.v)))

\* impl Div<Scalar> for Scalar.  The match guard `a % b == 0` is evaluated first:
\* i64 % panics for a zero divisor and for i64::MIN % -1 in every build profile.
ScalarDiv(a, b) ==
    CASE IsPanic(a) \/ IsPanic(b) -> PanicS
      [] a.t = "Integer" /\ b.t = "Integer" ->
            IF b.v = 0 THEN PanicS
            ELSE IF a.v = I64_MIN /\ b.v = -1 THEN PanicS
            ELSE IF Abs(a.v) % Abs(b.v) = 0
                 THEN Integer(Sgn(a.v) * Sgn(b.v) * (Abs(a.v) \div Abs(b.v)))
                 ELSE Float(FDiv(ScalarAsF64(a), ScalarAsF64(b)))
      [] OTHER -> Float(FDiv(ScalarAsF64(a), ScalarAsF64(b)))

\* Scalar::sqrt
ScalarSqrt(s) ==
    IF s.t = "Integer" THEN Float(FSqrt(I64AsF64(s.v))) ELSE Float(FSqrt(s.f))

-----------------------------------------------------------------------------
(* Point and Vector: stdlib/point.rs, stdlib/vector.rs.  Both are a pair   *)
(* [x, y] of Scalars; a panic in a coordinate is a panic of the operation. *)

XY(x, y) == IF IsPanic(x) \/ IsPanic(y) THEN PanicS ELSE [x |-> x, y |-> y]

\* impl Add for Vector
VectorAdd(a, b) == XY(ScalarAdd(a.x, b.x), ScalarAdd(a.y, b.y))
\* impl Sub for Vector
VectorSub(a, b) == XY(ScalarSub(a.x, b.x), ScalarSub(a.y, b.y))
\* impl Mul<Scalar> for Vector
VectorMul(a, r) == XY(ScalarMul(a.x, r), ScalarMul(a.y, r))
\* impl Div<Scalar> for Vector
VectorDiv(a, r) == XY(ScalarDiv(a.x, r), ScalarDiv(a.y, r))
\* impl Add<Vector> for Point
PointAddVector(p, v) == XY(ScalarAdd(p.x, v.x), ScalarAdd(p.y, v.y))
\* impl Sub<Vector> for Point
PointSubVector(p, v) == XY(ScalarSub(p.x, v.x), ScalarSub(p.y, v.y))
\* impl Sub<Point> for Point
PointSubPoint(a, b) == XY(ScalarSub(a.x, b.x), ScalarSub(a.y, b.y))

-----------------------------------------------------------------------------
(* Value, Error and Result: runtime.rs *)

Void == [k |-> "Void"]
VScalar(s) == [k |-> "Scalar", s |-> s]
VPoint(p) == [k |-> "Point", p |-> p]
VVector(v) == [k |-> "Vector", v |-> v]
VLine(p, v) == [k |-> "Line", p |-> p, v |-> v]

StackUnderflow == [kind |-> "StackUnderflow"]
InvalidArgument == [kind |-> "InvalidArgument"]
VariableNotFound(name) == [kind |-> "VariableNotFound", name |-> name]
FunctionNotFound(name) == [kind |-> "FunctionNotFound", name |-> name]
TypeError == [kind |-> "TypeError"]
IntLiteralTooLarge == [kind |-> "IntLiteralTooLarge"]
MissingArgument == [kind |-> "MissingArgument"]
NonRealResult == [kind |-> "NonRealResult"]

Ok(v) == [tag |-> "Ok", val |-> v]
Err(e) == [tag |-> "Err", err |-> e]
\* the call did not return: the thread panicked
Panic == [tag |-> "Panic"]

\* Ok(Value::Scalar(..)), Ok(Value::Point(..)), Ok(Value::Vector(..)) around an
\* arithmetic expression that may panic before the value exists
OkScalar(s) == IF IsPanic(s) THEN Panic ELSE Ok(VScalar(s))
OkPoint(p) == IF IsPanic(p) THEN Panic ELSE Ok(VPoint(p))
OkVector(v) == IF IsPanic(v) THEN Panic ELSE Ok(VVector(v))

-----------------------------------------------------------------------------
(* Stack: runtime.rs *)

\* Stack::push with the Void filter removed
push_any(s, value) == Append(s, value)

\* Stack::push
push(s, value) == IF value.k = "Void" THEN s ELSE Append(s, value)

\* Stack::pop that answers an empty stack with the absent value
pop_or_void(s) ==
    IF s = <<>> THEN [res |-> Ok(Void), stack |-> s]
    ELSE [res |-> Ok(s[Len(s)]), stack |-> SubSeq(s, 1, Len(s) - 1)]

\* Stack::pop
pop(s) ==
    IF s = <<>> THEN [res |-> Err(StackUnderflow), stack |-> s]
    ELSE [res |-> Ok(s[Len(s)]), stack |-> SubSeq(s, 1, Len(s) - 1)]

\* Stack::clear
clear(s) == <<>>

-----------------------------------------------------------------------------
(* reverse_pop!: stdlib.rs.  A failed pop becomes MissingArgument and the   *)
(* built-in returns at once; what was popped before stays popped.          *)

\* the Result of Stack::pop as reverse_pop! binds it
popped(p) ==
    IF p.res.tag = "Ok" THEN [ok |-> TRUE, a |-> p.res.val, stack |-> p.stack]
    ELSE [ok |-> FALSE, stack |-> p.stack]

\* reverse_pop!(stack => arg)
reverse_pop1(s) == popped(pop(s))

\* both pops done, the operands bound in the order they were popped
bind2_forward(first, second) ==
    IF ~second.ok THEN second
    ELSE [ok |-> TRUE, a |-> first.a, b |-> second.a, stack |-> second.stack]

second_pop_forward(first) ==
    IF ~first.ok THEN first ELSE bind2_forward(first, reverse_pop1(first.stack))

\* reverse_pop!(stack => a, b) with the operands popped in declaration order
reverse_pop2_forward(s) == second_pop_forward(reverse_pop1(s))

\* both pops done: the value popped first is b, the one popped second is a
bind2(first, second) ==
    IF ~second.ok THEN second
    ELSE [ok |-> TRUE, a |-> second.a, b |-> first.a, stack |-> second.stack]

\* reverse_pop!(stack => a) after reverse_pop!(stack => b)
second_pop(first) ==
    IF ~first.ok THEN first ELSE bind2(first, reverse_pop1(first.stack))

\* reverse_pop!(stack => a, b): expands to reverse_pop!(stack => b) and then
\* reverse_pop!(stack => a), so the last-declared operand is popped first
reverse_pop2(s) == second_pop(reverse_pop1(s))

-----------------------------------------------------------------------------
(* Built-ins: stdlib/basic.rs, stdlib/vector.rs, stdlib/point.rs,           *)
(* stdlib/scalar.rs.  Each maps a stack to [res, stack].                    *)

\* the match of add with an arm for Point + Point
add_match_points(a, b) ==
    CASE a.k = "Scalar" /\ b.k = "Scalar" -> OkScalar(ScalarAdd(a.s, b.s))
      [] a.k = "Vector" /\ b.k = "Vector" -> OkVector(VectorAdd(a.v, b.v))
      [] a.k = "Vector" /\ b.k = "Point" -> OkPoint(PointAddVector(b.p, a.v))
      [] a.k = "Point" /\ b.k = "Vector" -> OkPoint(PointAddVector(a.p, b.v))
      [] a.k = "Point" /\ b.k = "Point" -> OkPoint(PointAddVector(a.p, b.p))
      [] OTHER -> Err(TypeError)

\* the match of add
add_match(a, b) ==
    CASE a.k = "Scalar" /\ b.k = "Scalar" -> OkScalar(ScalarAdd(a.s, b.s))
      [] a.k = "Vector" /\ b.k = "Vector" -> OkVector(VectorAdd(a.v, b.v))
      [] a.k = "Vector" /\ b.k = "Point" -> OkPoint(PointAddVector(b.p, a.v))
      [] a.k = "Point" /\ b.k = "Vector" -> OkPoint(PointAddVector(a.p, b.v))
      [] OTHER -> Err(TypeError)

\* the match of sub
sub_match(a, b) ==
    CASE a.k = "Scalar" /\ b.k = "Scalar" -> OkScalar(ScalarSub(a.s, b.s))
      [] a.k = "Vector" /\ b.k = "Vector" -> OkVector(VectorSub(a.v, b.v))
      [] a.k = "Point" /\ b.k = "Point" -> OkVector(PointSubPoint(a.p, b.p))
      [] a.k = "Point" /\ b.k = "Vector" -> OkPoint(PointSubVector(a.p, b.v))
      [] OTHER -> Err(TypeError)

\* the match of mul
mul_match(a, b) ==
    CASE a.k = "Scalar" /\ b.k = "Scalar" -> OkScalar(ScalarMul(a.s, b.s))
      [] a.k = "Vector" /\ b.k = "Scalar" -> OkVector(VectorMul(a.v, b.s))
      [] a.k = "Scalar" /\ b.k = "Vector" -> OkVector(VectorMul(b.v, a.s))
      [] OTHER -> Err(TypeError)

\* the match of div
div_match(a, b) ==
    CASE a.k = "Scalar" /\ b.k = "Scalar" -> OkScalar(ScalarDiv(a.s, b.s))
      [] a.k = "Vector" /\ b.k = "Scalar" -> OkVector(VectorDiv(a.v, b.s))
      [] OTHER -> Err(TypeError)

\* the let-else and result of dot
dot_match(lhs, rhs) ==
    IF lhs.k = "Vector" /\ rhs.k = "Vector"
    THEN OkScalar(ScalarAdd(ScalarMul(lhs.v.x, rhs.v.x), ScalarMul(lhs.v.y, rhs.v.y)))
    ELSE Err(TypeError)

\* the match of vec2
vec2_match(a, b) ==
    IF a.k = "Scalar" /\ b.k = "Scalar" THEN Ok(VVector([x |-> a.s, y |-> b.s]))
    ELSE Err(TypeError)

\* the let-else and result of pnt2
pnt2_match(a, b) ==
    IF a.k = "Scalar" /\ b.k = "Scalar" THEN Ok(VPoint([x |-> a.s, y |-> b.s]))
    ELSE Err(TypeError)

\* Ok(Value::Line(p, v)) around a subtraction that may panic
line_of(p, v) == IF IsPanic(v) THEN Panic ELSE Ok(VLine(p, v))

\* the match of the line built-in (see line below)
line_match(a, b) ==
    IF a.k = "Point" /\ b.k = "Point" THEN line_of(a.p, PointSubPoint(b.p, a.p))
    ELSE Err(TypeError)

\* the body of a built-in of two operands after reverse_pop!(stack => a, b)
Binary(name, a, b) ==
    CASE name = "add" -> add_match(a, b)
      [] name = "sub" -> sub_match(a, b)
      [] name = "mul" -> mul_match(a, b)
      [] name = "div" -> div_match(a, b)
      [] name = "dot" -> dot_match(a, b)
      [] name = "vec2" -> vec2_match(a, b)
      [] name = "pnt2" -> pnt2_match(a, b)
      [] name = "line" -> line_match(a, b)

\* a built-in's return: MissingArgument if reverse_pop! failed, else its match
Apply2(name, p) ==
    IF ~p.ok THEN [res |-> Err(MissingArgument), stack |-> p.stack]
    ELSE [res |-> Binary(name, p.a, p.b), stack |-> p.stack]

add(s) == Apply2("add", reverse_pop2(s))
sub(s) == Apply2("sub", reverse_pop2(s))
mul(s) == Apply2("mul", reverse_pop2(s))
div(s) == Apply2("div", reverse_pop2(s))
dot(s) == Apply2("dot", reverse_pop2(s))
vec2(s) == Apply2("vec2", reverse_pop2(s))
pnt2(s) == Apply2("pnt2", reverse_pop2(s))

\* the let-else and result of lvec
lvec_match(pnt) == IF pnt.k = "Point" THEN Ok(VVector(pnt.p)) ELSE Err(TypeError)

\* the match of x
x_match(pnt) ==
    CASE pnt.k = "Point" -> Ok(VScalar(pnt.p.x))
      [] pnt.k = "Vector" -> Ok(VScalar(pnt.v.x))
      [] OTHER -> Err(TypeError)

\* the match of y
y_match(pnt) ==
    CASE pnt.k = "Point" -> Ok(VScalar(pnt.p.y))
      [] pnt.k = "Vector" -> Ok(VScalar(pnt.v.y))
      [] OTHER -> Err(TypeError)

\* the match of sqrt with a sign test that rejects zero
sqrt_match_positive_only(v) ==
    IF v.k = "Scalar"
    THEN (IF FGeZero(ScalarAsF64(v.s)) /\ ~FIsZero(ScalarAsF64(v.s))
          THEN Ok(VScalar(ScalarSqrt(v.s))) ELSE Err(NonRealResult))
    ELSE Err(TypeError)

\* the match of sqrt: f64::from(scalar) >= 0.0
sqrt_match(v) ==
    IF v.k = "Scalar"
    THEN (IF FGeZero(ScalarAsF64(v.s)) THEN Ok(VScalar(ScalarSqrt(v.s)))
          ELSE Err(NonRealResult))
    ELSE Err(TypeError)

\* the body of a built-in of one operand after reverse_pop!(stack => arg)
Unary(name, a) ==
    CASE name = "lvec" -> lvec_match(a)
      [] name = "x" -> x_match(a)
      [] name = "y" -> y_match(a)
      [] name = "sqrt" -> sqrt_match(a)

Apply1(name, p) ==
    IF ~p.ok THEN [res |-> Err(MissingArgument), stack |-> p.stack]
    ELSE [res |-> Unary(name, p.a), stack |-> p.stack]

lvec(s) == Apply1("lvec", reverse_pop1(s))
fn_x(s) == Apply1("x", reverse_pop1(s))
fn_y(s) == Apply1("y", reverse_pop1(s))
sqrt(s) == Apply1("sqrt", reverse_pop1(s))

\* jump_previous displacing the Point against the Vector
jump_previous_back(vec, p) ==
    IF ~p.ok THEN [res |-> Err(MissingArgument), stack |-> p.stack]
    ELSE IF p.a.k = "Point"
         THEN [res |-> OkPoint(PointSubVector(p.a.p, vec.v)), stack |-> p.stack]
         ELSE [res |-> Err(TypeError), stack |-> p.stack]

\* jump after its vec2 returned Ok(Vector): reverse_pop!(stack => previous)
jump_previous(vec, p) ==
    IF ~p.ok THEN [res |-> Err(MissingArgument), stack |-> p.stack]
    ELSE IF p.a.k = "Point"
         THEN [res |-> OkPoint(PointAddVector(p.a.p, vec.v)), stack |-> p.stack]
         ELSE [res |-> Err(TypeError), stack |-> p.stack]

\* jump after `super::vector::vec2(stack)?`
jump_after_vec2(v) ==
    IF v.res.tag # "Ok" THEN v ELSE jump_previous(v.res.val, reverse_pop1(v.stack))

\* jump: vec2(stack)? builds the Vector from two Scalars on the stack, then the
\* Point is popped from under them
jump(s) == jump_after_vec2(vec2(s))

\* The `line` built-in that main.rs calls.  It is not among the sources; it is
\* taken from the specification: it consumes two Points and yields the Line
\* from the first to the second.
line(s) == Apply2("line", reverse_pop2(s))

\* Runtime.functions after Runtime::default(): the names stdlib's register
\* functions pass to define_fn, and `line`
functions ==
    {"add", "sub", "mul", "div", "dot", "vec2", "pnt2", "lvec", "x", "y", "jump",
     "sqrt", "line"}

\* function(&mut self.stack) for the fn pointer stored under name
call(name, s) ==
    CASE name = "add" -> add(s)
      [] name = "sub" -> sub(s)
      [] name = "mul" -> mul(s)
      [] name = "div" -> div(s)
      [] name = "dot" -> dot(s)
      [] name = "vec2" -> vec2(s)
      [] name = "pnt2" -> pnt2(s)
      [] name = "lvec" -> lvec(s)
      [] name = "x" -> fn_x(s)
      [] name = "y" -> fn_y(s)
      [] name = "jump" -> jump(s)
      [] name = "sqrt" -> sqrt(s)
      [] name = "line" -> line(s)

-----------------------------------------------------------------------------
(* The AST the Runtime walks: ast.rs, token.rs (Number).  An Expression's   *)
(* position is left out: the Runtime never reads it.                       *)

\* Number::Integer(u64)
NumInteger(u) == [t |-> "Integer", v |-> u]
\* Number::Float(f64)
NumFloat(f) == [t |-> "Float", f |-> f]

\* ExpressionContent
Literal(num) == [k |-> "Literal", num |-> num]
Variable(name) == [k |-> "Variable", name |-> name]
FunctionCall(name, args) == [k |-> "FunctionCall", name |-> name, args |-> args]
Let(name, init) == [k |-> "Let", name |-> name, init |-> init]
Screen(a0, a1) == [k |-> "Screen", a0 |-> a0, a1 |-> a1]
\* Option<Argument>::None
NoInit == [k |-> "None"]

\* Argument
ArgVariable(name) == [k |-> "Variable", name |-> name]
ArgLiteral(num) == [k |-> "Literal", num |-> num]
Parenthesized(content) == [k |-> "Parenthesized", content |-> content]

Expression(content, draw_result) == [content |-> content, draw_result |-> draw_result]

\* try_from_number refusing i64::MAX itself
try_from_number_below_max(num) ==
    IF num.t = "Integer"
    THEN (IF num.v >= I64_MAX THEN Err(IntLiteralTooLarge) ELSE Ok(VScalar(Integer(num.v))))
    ELSE Ok(VScalar(Float(num.f)))

\* impl TryFrom<Number> for Scalar, wrapped as execute_expression wraps it
try_from_number(num) ==
    IF num.t = "Integer"
    THEN (IF num.v > I64_MAX THEN Err(IntLiteralTooLarge) ELSE Ok(VScalar(Integer(num.v))))
    ELSE Ok(VScalar(Float(num.f)))

-----------------------------------------------------------------------------
(* Environment: Runtime.variables.  Names is the set of names the modelled  *)
(* programs use; an absent key maps to Unbound.                             *)

Names == {"a", "b"}
Unbound == [k |-> "Unbound"]
NoVariables == [n \in Names |-> Unbound]

\* self.variables.get(&name).copied().ok_or(Error::VariableNotFound(name))
get(vs, name) ==
    IF name \in Names /\ vs[name] # Unbound THEN Ok(vs[name])
    ELSE Err(VariableNotFound(name))

\* an insert that keeps the value of a key already present
insert_if_absent(vs, name, value) ==
    IF vs[name] = Unbound THEN [vs EXCEPT ![name] = value] ELSE vs

\* self.variables.insert(name, value)
insert(vs, name, value) == [vs EXCEPT ![name] = value]

-----------------------------------------------------------------------------
(* DrawCommand: output.rs *)

\* impl From<Scalar> for Mm
Mm(s) == ScalarAsF64(s)

Resize(x, y) == [cmd |-> "Resize", x |-> x, y |-> y]
Line(from, to) == [cmd |-> "Line", from |-> from, to |-> to]
NoCommand == [opt |-> "None"]
Some(c) == [opt |-> "Some", cmd |-> c]
\* p.x + v.x or p.y + v.y overflowed with overflow checks on
PanicCommand == [opt |-> "Panic"]

\* Some(DrawCommand::Line { from, to }) once p + v is computed
line_command(p, tx, ty) ==
    IF IsPanic(tx) \/ IsPanic(ty) THEN PanicCommand
    ELSE Some(Line(<<Mm(p.x), Mm(p.y)>>, <<Mm(tx), Mm(ty)>>))

\* a conversion that draws Points as well, as lines of no length
into_draw_command_points(value) ==
    CASE value.k = "Line" ->
            line_command(value.p, ScalarAdd(value.p.x, value.v.x),
                         ScalarAdd(value.p.y, value.v.y))
      [] value.k = "Point" -> line_command(value.p, value.p.x, value.p.y)
      [] OTHER -> NoCommand

\* impl From<Value> for Option<DrawCommand>
into_draw_command(value) ==
    IF value.k = "Line"
    THEN line_command(value.p, ScalarAdd(value.p.x, value.v.x),
                      ScalarAdd(value.p.y, value.v.y))
    ELSE NoCommand

-----------------------------------------------------------------------------
(* Tokenizer: token.rs.  A source text is a sequence of characters, each a  *)
(* one-character string; only ASCII is modelled.  A StringTokenizer is      *)
(* [chars, position]: the characters its iterator still holds and the       *)
(* Position reached.  Token payloads are [p |-> variant, ...] and a token   *)
(* or an error is the payload or kind with its Position.                    *)

\* char::is_whitespace and char::is_ascii_digit (is_numeric on ASCII)
Whitespace == {" ", "\t", "\n", "\r"}
Digits == {"0", "1", "2", "3", "4", "5", "6", "7", "8", "9"}

\* StringTokenizer::new
new(slice) == [chars |-> slice, position |-> [line |-> 0, column |-> 0]]

\* StringTokenizer::current; None is the empty string
current(tz) == IF tz.chars = <<>> THEN "" ELSE Head(tz.chars)

\* StringTokenizer::advance: the tokenizer after it; what it returns is what
\* current() held before
advance(tz) ==
    IF tz.chars = <<>> THEN tz
    ELSE [chars |-> Tail(tz.chars),
          position |-> IF Head(tz.chars) = "\n"
                       THEN [line |-> tz.position.line + 1, column |-> 0]
                       ELSE [tz.position EXCEPT !.column = @ + 1]]

\* the closure of parse_name (`first` holds while nothing was taken) and of
\* parse_integer
condition(class, c, first) ==
    IF class = "digits" THEN c \in Digits
    ELSE /\ c \notin {";", "(", ")", "'", "$", "=", "!"} /\ c \notin Whitespace
         /\ first => c \notin Digits

\* StringTokenizer::take_while: [text, tz], text being the characters taken
RECURSIVE take_while(_, _, _)
take_while(tz, class, taken) ==
    IF current(tz) # "" /\ condition(class, current(tz), taken = <<>>)
    THEN take_while(advance(tz), class, Append(taken, current(tz)))
    ELSE [text |-> taken, tz |-> tz]

\* str::parse::<u64> on a run of digits, as a number that may exceed u64::MAX
RECURSIVE parse_u64(_)
parse_u64(digits) ==
    IF digits = <<>> THEN 0
    ELSE 10 * parse_u64(SubSeq(digits, 1, Len(digits) - 1))
         + (CHOOSE d \in 0..9 : <<"0", "1", "2", "3", "4", "5", "6", "7", "8", "9">>[d + 1]
                                   = digits[Len(digits)])

\* Ok(self.token(payload)) and Err(self.error(kind)), with the tokenizer left
token(tz, payload) ==
    [res |-> Ok([payload |-> payload, position |-> tz.position]), tz |-> tz]
error(tz, kind) == [res |-> Err([kind |-> kind, at |-> tz.position]), tz |-> tz]

\* read_token after its loop broke with `first`: a Variable, a literal or a Name;
\* w is what parse_name or parse_integer took
read_word(first, w) ==
    CASE first = "$" ->
            IF w.text = <<>> THEN error(w.tz, "EmptyVariableName")
            ELSE token(w.tz, [p |-> "Variable", name |-> w.text])
      [] first \in Digits ->
            IF parse_u64(w.text) > U64_MAX THEN error(w.tz, "InvalidLiteral")
            ELSE token(w.tz, [p |-> "LitNumber", num |-> NumInteger(parse_u64(w.text))])
      [] OTHER ->
            IF w.text = <<>> THEN error(w.tz, "EmptyFunctionName")
            ELSE IF w.text = <<"l", "e", "t">> THEN token(w.tz, [p |-> "Let"])
            ELSE token(w.tz, [p |-> "Name", name |-> w.text])

\* the arms '\r', '!' and '=' of read_token: self.advance(), then the let-else
\* on a second self.advance(), then the self.advance() after the match; t is the
\* tokenizer after the first advance
read_pair(t, expected, payload, kind) ==
    IF current(t) # expected THEN error(advance(t), kind)
    ELSE token(advance(advance(t)), [p |-> payload])

\* StringTokenizer::read_token: [res, tz], the Result and the tokenizer after
RECURSIVE read_token(_)
read_token(tz) ==
    CASE current(tz) = "" -> token(tz, [p |-> "EOF"])
      [] current(tz) = "\n" -> token(advance(tz), [p |-> "Newline"])
      [] current(tz) = "\r" -> read_pair(advance(tz), "\n", "Newline", "InvalidCRLFSequence")
      [] current(tz) = "!" ->
            read_pair(advance(tz), "\n", "VoidNewline", "ExpectedNewlineAfterBang")
      [] current(tz) = ";" -> token(advance(tz), [p |-> "Concat"])
      [] current(tz) = "=" -> read_pair(advance(tz), ">", "Pipe", "InvalidPipe")
      [] current(tz) = "(" -> token(advance(tz), [p |-> "ParenL"])
      [] current(tz) = ")" -> token(advance(tz), [p |-> "ParenR"])
      [] current(tz) \in Whitespace -> read_token(advance(tz))
      [] current(tz) = "$" -> read_word("$", take_while(advance(tz), "name", <<>>))
      [] current(tz) \in Digits -> read_word(current(tz), take_while(tz, "digits", <<>>))
      [] OTHER -> read_word(current(tz), take_while(tz, "name", <<>>))

\* peek_token that reads from the tokenizer itself
peek_token_consuming(tz) == read_token(tz)

\* StringTokenizer::peek_token: read_token on a clone, which is dropped
peek_token(tz) == [res |-> read_token(tz).res, tz |-> tz]

-----------------------------------------------------------------------------
(* Parser: ast.rs.  parse_expr and parse_arg take the tokenizer and yield   *)
(* [res, tz]: the Result returned and the tokenizer after.  Of the Option   *)
(* in a Result, None is NoInit and Some(x) is x.  The Payloads the parser   *)
(* names Eof and Keyword(Let) are the tokenizer's EOF and Let; no token of  *)
(* this tokenizer is the Keyword(Screen) the parser also matches.           *)

\* ast::Error::new; kind is [k |-> variant, ...]
Error_new(at, kind) == Err([kind |-> kind, at |-> at])

\* impl From<token::Error> for ast::Error, applied by `?` to a Result
from(res) == Error_new(res.err.at, [k |-> "InvalidToken", cause |-> res.err.kind])

RECURSIVE parse_expr(_), parse_arg(_), parse_args(_, _)

\* parse_arg, the ParenL arm, leaving the ParenR unread
parse_paren_unread(start, expr) ==
    IF expr.res.tag = "Err" THEN expr
    ELSE IF expr.res.val.k = "None"
    THEN [res |-> Error_new(start.position, [k |-> "ExpectedExpression"]), tz |-> expr.tz]
    ELSE IF peek_token(expr.tz).res.tag = "Err"
    THEN [res |-> from(peek_token(expr.tz).res), tz |-> expr.tz]
    ELSE IF peek_token(expr.tz).res.val.payload.p # "ParenR"
    THEN [res |-> Error_new(start.position, [k |-> "UnclosedDelimiter"]), tz |-> expr.tz]
    ELSE [res |-> Ok(Parenthesized(expr.res.val)), tz |-> expr.tz]

\* parse_arg, the ParenL arm: start is the token peeked, expr what parse_expr
\* returned after that token was read
parse_paren(start, expr) ==
    IF expr.res.tag = "Err" THEN expr
    ELSE IF expr.res.val.k = "None"
    THEN [res |-> Error_new(start.position, [k |-> "ExpectedExpression"]), tz |-> expr.tz]
    ELSE IF peek_token(expr.tz).res.tag = "Err"
    THEN [res |-> from(peek_token(expr.tz).res), tz |-> expr.tz]
    ELSE IF peek_token(expr.tz).res.val.payload.p # "ParenR"
    THEN [res |-> Error_new(start.position, [k |-> "UnclosedDelimiter"]), tz |-> expr.tz]
    ELSE [res |-> Ok(Parenthesized(expr.res.val)), tz |-> read_token(expr.tz).tz]

\* parse_arg after its peek_token returned start
parse_start(tz, start) ==
    IF start.tag = "Err" THEN [res |-> from(start), tz |-> tz]
    ELSE CASE start.val.payload.p = "Variable" ->
                [res |-> Ok(ArgVariable(start.val.payload.name)), tz |-> read_token(tz).tz]
           [] start.val.payload.p = "LitNumber" ->
                [res |-> Ok(ArgLiteral(start.val.payload.num)), tz |-> read_token(tz).tz]
           [] start.val.payload.p = "ParenL" ->
                parse_paren(start.val, parse_expr(read_token(tz).tz))
           [] OTHER -> [res |-> Ok(NoInit), tz |-> tz]

\* ast::parse_arg
parse_arg(tz) == parse_start(tz, peek_token(tz).res)

\* parse_expr, the Name arm: `while let Some(arg) = parse_arg(source)?`, arg
\* being what the latest parse_arg returned
parse_args(arg, args) ==
    IF arg.res.tag = "Err" THEN arg
    ELSE IF arg.res.val.k = "None" THEN [res |-> Ok(args), tz |-> arg.tz]
    ELSE parse_args(parse_arg(arg.tz), Append(args, arg.res.val))

\* ExpressionContent::FunctionCall { name, args } of the arguments parsed
parse_call(name, args) ==
    IF args.res.tag = "Err" THEN args
    ELSE [res |-> Ok(FunctionCall(name, args.res.val)), tz |-> args.tz]

\* parse_expr, the Keyword(Let) arm: next is what the second read_token
\* returned, init what parse_arg returns after it
parse_let(next, init) ==
    IF next.res.tag = "Err" THEN [res |-> from(next.res), tz |-> next.tz]
    ELSE IF next.res.val.payload.p # "Name"
    THEN [res |-> Error_new(next.res.val.position, [k |-> "ExpectedIdentifier"]),
          tz |-> next.tz]
    ELSE IF init.res.tag = "Err" THEN init
    ELSE [res |-> Ok(Let(next.res.val.payload.name, init.res.val)), tz |-> init.tz]

\* parse_expr, the Keyword(Screen) arm: x and y are what the two parse_arg
\* calls return
parse_screen(position, x, y) ==
    IF x.res.tag = "Err" THEN x
    ELSE IF x.res.val.k = "None"
    THEN [res |-> Error_new(position, [k |-> "ExpectedExpression"]), tz |-> x.tz]
    ELSE IF y.res.tag = "Err" THEN y
    ELSE IF y.res.val.k = "None"
    THEN [res |-> Error_new(position, [k |-> "ExpectedExpression"]), tz |-> y.tz]
    ELSE [res |-> Ok(Screen(x.res.val, y.res.val)), tz |-> y.tz]

\* parse_expr after its read_token returned read
parse_content(read) ==
    IF read.res.tag = "Err" THEN [res |-> from(read.res), tz |-> read.tz]
    ELSE CASE read.res.val.payload.p = "LitNumber" ->
                [res |-> Ok(Literal(read.res.val.payload.num)), tz |-> read.tz]
           [] read.res.val.payload.p = "Variable" ->
                [res |-> Ok(Variable(read.res.val.payload.name)), tz |-> read.tz]
           [] read.res.val.payload.p = "Name" ->
                parse_call(read.res.val.payload.name, parse_args(parse_arg(read.tz), <<>>))
           [] read.res.val.payload.p = "Let" ->
                parse_let(read_token(read.tz), parse_arg(read_token(read.tz).tz))
           [] read.res.val.payload.p = "Screen" ->
                parse_screen(read.res.val.position, parse_arg(read.tz),
                             parse_arg(parse_arg(read.tz).tz))
           [] read.res.val.payload.p \in {"Newline", "EOF"} ->
                [res |-> Ok(NoInit), tz |-> read.tz]
           [] OTHER ->
                [res |-> Error_new(read.res.val.position,
                                   [k |-> "UnexpectedToken", token |-> read.res.val.payload]),
                 tz |-> read.tz]

\* ast::parse_expr
parse_expr(tz) == parse_content(read_token(tz))

\* parse_instruction: `if let Payload::Newline | Payload::Eof = join { break; }`,
\* with Concat breaking the loop too
breaks_on_concat(join) == join.payload.p \in {"Newline", "EOF", "Concat"}

\* parse_instruction: `if let Payload::Newline | Payload::Eof = join { break; }`
breaks(join) == join.payload.p \in {"Newline", "EOF"}

\* parse_instruction: `let draw_result = match join`, with Pipe and Concat
\* exchanged
join_draw_result_exchanged(join) ==
    CASE join.payload.p = "Concat" -> Ok(FALSE)
      [] join.payload.p \in {"Pipe", "Newline", "EOF"} -> Ok(TRUE)
      [] OTHER -> Error_new(join.position, [k |-> "UnexpectedToken", token |-> join.payload])

\* parse_instruction: `let draw_result = match join`, join being the token read
\* after an expression
join_draw_result(join) ==
    CASE join.payload.p = "Pipe" -> Ok(FALSE)
      [] join.payload.p \in {"Concat", "Newline", "EOF"} -> Ok(TRUE)
      [] OTHER -> Error_new(join.position, [k |-> "UnexpectedToken", token |-> join.payload])

-----------------------------------------------------------------------------
(* Runtime: runtime.rs.  The evaluator works on st = [stack, variables,     *)
(* draw] and yields [res, st]: the Result returned and the Runtime after.   *)

RECURSIVE execute_expression(_, _), execute_argument(_, _), push_arguments(_, _, _)

\* the Runtime with its stack replaced by what a built-in or pop left
with_stack(st, c) == [res |-> c.res, st |-> [st EXCEPT !.stack = c.stack]]

\* `let value = self.execute_argument(arg)?; self.stack.push(value);` and on
\* to the next argument
push_argument(args, i, r) ==
    IF r.res.tag # "Ok" THEN r
    ELSE push_arguments(args, i + 1, [r.st EXCEPT !.stack = push(r.st.stack, r.res.val)])

\* the `for arg in args` loop of the FunctionCall arm, from argument i on
push_arguments(args, i, st) ==
    IF i > Len(args) THEN [res |-> Ok(Void), st |-> st]
    ELSE push_argument(args, i, execute_argument(args[i], st))

\* the FunctionCall arm looking the function up whatever its loop returned
call_function_lookup_first(name, r) ==
    IF name \notin functions THEN [res |-> Err(FunctionNotFound(name)), st |-> r.st]
    ELSE IF r.res.tag # "Ok" THEN r
    ELSE with_stack(r.st, call(name, r.st.stack))

\* the FunctionCall arm after its loop: look the function up and call it
call_function(name, r) ==
    IF r.res.tag # "Ok" THEN r
    ELSE IF name \notin functions THEN [res |-> Err(FunctionNotFound(name)), st |-> r.st]
    ELSE with_stack(r.st, call(name, r.st.stack))

\* the Let arm after its value: self.variables.insert(name, value); Ok(value)
let_insert(name, r) ==
    IF r.res.tag # "Ok" THEN r
    ELSE [res |-> r.res,
          st |-> [r.st EXCEPT !.variables = insert(r.st.variables, name, r.res.val)]]

\* screen_resize carrying the second argument as x and the first as y
screen_resize_swapped(r0, r1) ==
    IF r1.res.tag # "Ok" THEN r1
    ELSE IF r0.res.val.k = "Scalar" /\ r1.res.val.k = "Scalar"
         THEN [res |-> Ok(Void),
               st |-> [r1.st EXCEPT !.draw =
                          Append(r1.st.draw, Resize(Mm(r1.res.val.s), Mm(r0.res.val.s)))]]
         ELSE [res |-> Err(InvalidArgument), st |-> r1.st]

\* the Screen arm after both arguments: the let-else, then draw(Resize)
screen_resize(r0, r1) ==
    IF r1.res.tag # "Ok" THEN r1
    ELSE IF r0.res.val.k = "Scalar" /\ r1.res.val.k = "Scalar"
         THEN [res |-> Ok(Void),
               st |-> [r1.st EXCEPT !.draw =
                          Append(r1.st.draw, Resize(Mm(r0.res.val.s), Mm(r1.res.val.s)))]]
         ELSE [res |-> Err(InvalidArgument), st |-> r1.st]

\* the Screen arm after its first argument
screen_second(e, r0) ==
    IF r0.res.tag # "Ok" THEN r0 ELSE screen_resize(r0, execute_argument(e.a1, r0.st))

execute_expression(e, st) ==
    CASE e.k = "Literal" -> [res |-> try_from_number(e.num), st |-> st]
      [] e.k = "Variable" -> [res |-> get(st.variables, e.name), st |-> st]
      [] e.k = "FunctionCall" -> call_function(e.name, push_arguments(e.args, 1, st))
      [] e.k = "Let" ->
            let_insert(e.name, IF e.init.k = "None" THEN with_stack(st, pop(st.stack))
                               ELSE execute_argument(e.init, st))
      [] e.k = "Screen" -> screen_second(e, execute_argument(e.a0, st))

execute_argument(a, st) ==
    CASE a.k = "Variable" -> [res |-> get(st.variables, a.name), st |-> st]
      [] a.k = "Literal" -> [res |-> try_from_number(a.num), st |-> st]
      [] a.k = "Parenthesized" -> execute_expression(a.content, st)

\* `if let Some(cmd) = value.into() { self.draw.draw(cmd); }`
draw_command(r, cmd) ==
    CASE cmd.opt = "None" -> r
      [] cmd.opt = "Panic" -> [res |-> Panic, st |-> r.st]
      [] cmd.opt = "Some" -> [res |-> r.res, st |-> [r.st EXCEPT !.draw = Append(r.st.draw, cmd.cmd)]]

\* the loop body after the push
draw_if_flagged(expression, value, r) ==
    IF ~expression.draw_result THEN r ELSE draw_command(r, into_draw_command(value))

\* the loop body clearing the stack when the Expression failed
push_and_draw_clearing(expression, r) ==
    IF r.res.tag # "Ok" THEN [r EXCEPT !.st.stack = clear(r.st.stack)]
    ELSE draw_if_flagged(expression, r.res.val,
                         [r EXCEPT !.st.stack = push(r.st.stack, r.res.val)])

\* the loop body pushing the value of a piped Expression only
push_and_draw_piped_only(expression, r) ==
    IF r.res.tag # "Ok" THEN r
    ELSE draw_if_flagged(expression, r.res.val,
                         IF expression.draw_result THEN r
                         ELSE [r EXCEPT !.st.stack = push(r.st.stack, r.res.val)])

\* the loop body after `let value = self.execute_expression(expression.content)?`
push_and_draw(expression, r) ==
    IF r.res.tag # "Ok" THEN r
    ELSE draw_if_flagged(expression, r.res.val,
                         [r EXCEPT !.st.stack = push(r.st.stack, r.res.val)])

\* one round of the `for expression in instruction.expressions` loop of
\* execute_instruction: evaluate, push, and draw if draw_result
execute_instruction_body(expression, st) ==
    push_and_draw(expression, execute_expression(expression.content, st))

-----------------------------------------------------------------------------
(* The programs the host feeds to execute.  A Program is revealed one      *)
(* Expression at a time: what execute has not reached yet cannot act on    *)
(* the Runtime.                                                            *)

Lit(i) == Literal(NumInteger(i))
ALit(i) == ArgLiteral(NumInteger(i))

Contents ==
    { Lit(1),
      Variable("a"),
      Let("a", NoInit),
      Let("a", ALit(2)),
      Let("b", ArgVariable("a")),
      Let("a", Parenthesized(Screen(ALit(1), ALit(1)))),
      FunctionCall("pnt2", <<ALit(1), ALit(2)>>),
      FunctionCall("line", <<Parenthesized(FunctionCall("pnt2", <<ALit(1), ALit(2)>>)),
                             Parenthesized(FunctionCall("pnt2", <<ALit(2), ALit(1)>>))>>),
      FunctionCall("line", <<>>),
      FunctionCall("undefined", <<ALit(1)>>),
      Screen(ALit(2), ALit(3)),
      Screen(ArgVariable("a"), ALit(1)) }

NoResult == [tag |-> "None"]
NoLast == [content |-> NoInit, draw_result |-> FALSE, res |-> NoResult]

RuntimeState == [stack |-> stack, variables |-> variables, draw |-> draw]

-----------------------------------------------------------------------------
(* Spec: a Runtime and the execute calls its host makes on it *)

\* Runtime::default()
Init ==
    /\ stack = <<>>
    /\ variables = NoVariables
    /\ draw = <<>>
    /\ pc = "idle"
    /\ result = NoResult
    /\ steps = 0
    /\ last = NoLast
    /\ bound = NoVariables
    /\ before = <<>>
    /\ overflow_checks \in BOOLEAN
    /\ source = new(<<>>) /\ program = <<>> /\ instruction = <<>>

\* the host calls execute(program) on the Runtime
Execute ==
    /\ pc = "idle"
    /\ pc' = "execute"
    /\ result' = NoResult
    /\ last' = NoLast
    /\ UNCHANGED <<stack, variables, draw, steps, bound, before, overflow_checks, source, program, instruction>>

\* execute: the `for instruction` loop yields an Instruction and
\* execute_instruction is entered
BeginInstruction ==
    /\ pc = "execute"
    /\ pc' = "instruction"
    /\ last' = NoLast
    /\ UNCHANGED <<stack, variables, draw, result, steps, bound, before, overflow_checks, source, program, instruction>>

\* a loop that drops an Err and goes on with the next Expression
Propagate_continue(res) == IF res.tag = "Panic" THEN "panicked" ELSE "instruction"

\* where an Err or a panic of the loop body leaves execute: `?` returns the
\* error from execute_instruction and from execute; a panic ends the thread
Propagate(res) == IF res.tag = "Ok" THEN "instruction"
                  ELSE IF res.tag = "Err" THEN "idle" ELSE "panicked"

\* execute_instruction: one round of the `for expression` loop
EvalExpression(content, draw_result) ==
    /\ pc = "instruction"
    /\ steps < MaxSteps
    /\ \E r \in {execute_instruction_body(Expression(content, draw_result), RuntimeState)} :
          /\ stack' = r.st.stack
          /\ variables' = r.st.variables
          /\ draw' = r.st.draw
          /\ pc' = Propagate(r.res)
          /\ result' = IF r.res.tag = "Ok" THEN result ELSE r.res
          /\ last' = [content |-> content, draw_result |-> draw_result, res |-> r.res]
          /\ bound' = IF content.k = "Let" /\ r.res.tag = "Ok"
                      THEN [bound EXCEPT ![content.name] = r.res.val]
                      ELSE bound
    /\ steps' = steps + 1
    /\ UNCHANGED <<before, overflow_checks, source, program, instruction>>

\* execute_instruction: the loop is over; self.stack.clear(); Ok(())
EndInstruction ==
    /\ pc = "instruction"
    /\ stack' = clear(stack)
    /\ pc' = "execute"
    /\ last' = NoLast
    /\ UNCHANGED <<variables, draw, result, steps, bound, before, overflow_checks, source, program, instruction>>

\* execute: the `for instruction` loop is over; Ok(())
ExecuteReturns ==
    /\ pc = "execute"
    /\ pc' = "idle"
    /\ result' = Ok(Void)
    /\ last' = NoLast
    /\ UNCHANGED <<stack, variables, draw, steps, bound, before, overflow_checks, source, program, instruction>>

Next ==
    \/ Execute
    \/ BeginInstruction
    \/ \E content \in Contents, draw_result \in BOOLEAN :
          EvalExpression(content, draw_result)
    \/ EndInstruction
    \/ ExecuteReturns

Spec == Init /\ [][Next]_vars

-----------------------------------------------------------------------------
(* SpecChain: the execute calls of Spec on Programs whose Expressions are   *)
(* integer literals, calls of sub written with one argument or with none,   *)
(* a reference to a variable nothing binds and a call of a name no function *)
(* has                                                                      *)

NextChain ==
    \/ Execute
    \/ BeginInstruction
    \/ \E content \in {Lit(1), Lit(3), FunctionCall("sub", <<>>),
                       FunctionCall("sub", <<ALit(1)>>), FunctionCall("sub", <<ALit(3)>>),
                       Variable("a"), FunctionCall("undefined", <<ALit(1)>>)},
          draw_result \in BOOLEAN :
          EvalExpression(content, draw_result)
    \/ EndInstruction
    \/ ExecuteReturns

SpecChain == Init /\ [][NextChain]_vars

-----------------------------------------------------------------------------
(* SpecStd: one built-in called directly on a stack, as the unit tests of   *)
(* stdlib do with dummy_stack                                              *)

StdFloats == {NaN, Inf(1), Inf(-1), Zero(1), Zero(-1), Q(1, 2), Q(-3, 2), Q(2, 1), Q(9, 4)}
StdScalars == {Integer(i) : i \in I64_MIN..I64_MAX} \cup {Float(f) : f \in StdFloats}
StdPoint == VPoint([x |-> Integer(1), y |-> Integer(2)])
StdVector == VVector([x |-> Integer(3), y |-> Float(Q(1, 2))])
StdLine == VLine([x |-> Integer(1), y |-> Integer(2)], [x |-> Integer(3), y |-> Integer(4)])
StdValues == {VScalar(s) : s \in StdScalars} \cup {StdPoint, StdVector, StdLine}

\* util.rs dummy_stack: the values pushed in order; up to two arbitrary values,
\* a Point under two Scalars, or three values of mixed types
StdStacks ==
    {<<>>} \cup {<<v>> : v \in StdValues} \cup {<<v, w>> : v, w \in StdValues}
    \cup {<<StdPoint, VScalar(Integer(i)), VScalar(Integer(j))>> : i, j \in {1, I64_MAX}}
    \cup {<<StdPoint, StdVector, VScalar(Integer(1))>>, <<StdLine, StdPoint, StdVector>>,
          <<StdVector, VScalar(Integer(1)), VScalar(Integer(1))>>}

InitStd ==
    /\ stack \in StdStacks
    /\ before = stack
    /\ variables = NoVariables
    /\ draw = <<>>
    /\ pc = "ready"
    /\ result = NoResult
    /\ steps = 0
    /\ last = NoLast
    /\ bound = NoVariables
    /\ overflow_checks \in BOOLEAN
    /\ source = new(<<>>) /\ program = <<>> /\ instruction = <<>>

\* name(&mut stack)
CallBuiltin(name) ==
    /\ pc = "ready"
    /\ \E c \in {call(name, stack)} :
          /\ stack' = c.stack
          /\ result' = c.res
          /\ last' = [content |-> FunctionCall(name, <<>>), draw_result |-> FALSE,
                      res |-> c.res]
    /\ pc' = "returned"
    /\ UNCHANGED <<variables, draw, steps, bound, before, overflow_checks, source, program, instruction>>

NextStd == \E name \in functions : CallBuiltin(name)

SpecStd == InitStd /\ [][NextStd]_vars

-----------------------------------------------------------------------------
(* SpecExpr: execute_expression applied once to a FunctionCall of a         *)
(* two-operand built-in whose arguments are literals or parenthesized calls *)

TwoOperand == {"add", "sub", "mul", "div", "pnt2", "vec2", "dot"}
NestedCalls ==
    {FunctionCall(g, <<ALit(i), ALit(j)>>) : g \in {"sub", "div", "vec2", "pnt2"},
                                            i, j \in {1, 3}}
ArgInputs == {ALit(i) : i \in {0, 1, 3, I64_MAX}} \cup {Parenthesized(c) : c \in NestedCalls}
CallInputs == {FunctionCall(f, <<x, y>>) : f \in TwoOperand, x, y \in ArgInputs}

InitExpr ==
    /\ stack \in {<<>>, <<StdPoint>>}
    /\ before = stack
    /\ variables = NoVariables
    /\ draw = <<>>
    /\ pc = "ready"
    /\ result = NoResult
    /\ steps = 0
    /\ last \in {[content |-> c, draw_result |-> FALSE, res |-> NoResult] : c \in CallInputs}
    /\ bound = NoVariables
    /\ overflow_checks \in BOOLEAN
    /\ source = new(<<>>) /\ program = <<>> /\ instruction = <<>>

\* self.execute_expression(content)
Evaluate ==
    /\ pc = "ready"
    /\ \E r \in {execute_expression(last.content, RuntimeState)} :
          /\ stack' = r.st.stack
          /\ variables' = r.st.variables
          /\ draw' = r.st.draw
          /\ result' = r.res
          /\ last' = [last EXCEPT !.res = r.res]
    /\ pc' = "returned"
    /\ UNCHANGED <<steps, bound, before, overflow_checks, source, program, instruction>>

NextExpr == Evaluate

SpecExpr == InitExpr /\ [][NextExpr]_vars

-----------------------------------------------------------------------------
(* SpecEval: execute_expression applied once, in an Environment that binds  *)
(* a and b to a Scalar, a Point or nothing, to a literal (as an Expression  *)
(* or as the initializer of a Let) of any u64 value, to a ScreenResize      *)
(* whose arguments are literals, variables or parenthesized expressions, or *)
(* to a call of pnt2 or of a name no function has, with two such arguments  *)

InitEval ==
    /\ stack \in {<<>>, <<StdPoint>>}
    /\ before = stack
    /\ variables \in [Names -> {Unbound, VScalar(Integer(2)), VScalar(Float(Q(1, 2))), StdPoint}]
    /\ draw = <<>>
    /\ pc = "ready"
    /\ result = NoResult
    /\ steps = 0
    /\ \E content \in
            {Literal(NumInteger(n)) : n \in 0..U64_MAX}
            \cup {Let("a", ArgLiteral(NumInteger(n))) : n \in 0..U64_MAX}
            \cup {Screen(w, h) : w, h \in
                     {ALit(3), ArgLiteral(NumInteger(U64_MAX)), ArgVariable("a"), ArgVariable("b"),
                      Parenthesized(FunctionCall("pnt2", <<ALit(1), ALit(2)>>)),
                      Parenthesized(Screen(ALit(1), ALit(1)))}}
            \cup {FunctionCall(name, <<x, y>>) : name \in {"undefined", "pnt2"}, x, y \in
                     {ALit(1), ArgLiteral(NumInteger(U64_MAX)), ArgVariable("a"), ArgVariable("b"),
                      Parenthesized(Let("b", ALit(3))),
                      Parenthesized(Screen(ALit(1), ALit(1)))}} :
          last = [content |-> content, draw_result |-> FALSE, res |-> NoResult]
    /\ bound = variables
    /\ overflow_checks \in BOOLEAN
    /\ source = new(<<>>) /\ program = <<>> /\ instruction = <<>>

SpecEval == InitEval /\ [][NextExpr]_vars

-----------------------------------------------------------------------------
(* SpecTok: a StringTokenizer over any text of up to MaxChars characters,   *)
(* on which the parser's two calls, read_token and peek_token, are made in  *)
(* any order                                                                *)

\* the texts made of up to n of the given pieces
RECURSIVE Texts(_, _)
Texts(pieces, n) ==
    IF n = 0 THEN {<<>>}
    ELSE Texts(pieces, n - 1) \cup {t \o c : t \in Texts(pieces, n - 1), c \in pieces}

InitTok ==
    /\ source \in {new(text) : text \in
                      Texts({<<"a">>, <<"1">>, <<" ">>, <<"\n">>, <<"\r">>, <<";">>, <<"=">>,
                             <<">">>, <<"(">>, <<")">>, <<"$">>, <<"!">>}, MaxChars)}
    /\ pc = "ready"
    /\ result = NoResult
    /\ steps = 0
    /\ stack = <<>> /\ variables = NoVariables /\ draw = <<>> /\ last = NoLast
    /\ bound = NoVariables /\ before = <<>> /\ overflow_checks = TRUE
    /\ program = <<>> /\ instruction = <<>>

\* source.read_token()
ReadToken ==
    /\ pc \in {"ready", "peeked", "read", "read_peeked"}
    /\ \E r \in {read_token(source)} :
          /\ source' = r.tz
          /\ result' = r.res
    /\ pc' = IF pc = "peeked" THEN "read_peeked" ELSE "read"
    /\ steps' = 0
    /\ UNCHANGED <<stack, variables, draw, last, bound, before, overflow_checks,
                   program, instruction>>

\* source.peek_token()
PeekToken ==
    /\ pc \in {"ready", "peeked", "read", "read_peeked"}
    /\ steps < MaxPeeks
    /\ \E r \in {peek_token(source)} :
          /\ source' = r.tz
          /\ result' = r.res
    /\ pc' = "peeked"
    /\ steps' = steps + 1
    /\ UNCHANGED <<stack, variables, draw, last, bound, before, overflow_checks,
                   program, instruction>>

NextTok == ReadToken \/ PeekToken

SpecTok == InitTok /\ [][NextTok]_vars

-----------------------------------------------------------------------------
(* SpecParse: parse_file on a StringTokenizer over a text of up to          *)
(* MaxLexemes lexemes, or over the program text of main.rs.  One step is    *)
(* one pass of parse_instruction's loop; `before` keeps the text,           *)
(* `instruction` is parse_instruction's `result`, `program` is parse_file's *)
(* `program`, `steps` counts the Expressions pushed, and `last` is what the *)
(* latest pass parsed: the expression with the Result of the read_token for *)
(* its join token, or NoLast when parse_expr returned no expression.        *)

\* main.rs: `pnt2 10 10; pnt2 20 20;line` between two line breaks (the
\* indentation cut to two spaces), and the same program on one line with a
\* space before `line`
MainText ==
    <<"\n", " ", " ", "p", "n", "t", "2", " ", "1", "0", " ", "1", "0", ";", " ",
      "p", "n", "t", "2", " ", "2", "0", " ", "2", "0", ";", "l", "i", "n", "e", "\n", " ", " ">>
OneLineText ==
    <<"p", "n", "t", "2", " ", "1", "0", " ", "1", "0", ";", " ",
      "p", "n", "t", "2", " ", "2", "0", " ", "2", "0", ";", " ", "l", "i", "n", "e">>

InitParse ==
    /\ before \in Texts({<<"a">>, <<"1">>, <<"$", "a">>, <<" ">>, <<"\n">>, <<"\r", "\n">>,
                         <<";">>, <<"=", ">">>, <<"(">>, <<")">>, <<"l", "e", "t", " ">>},
                        MaxLexemes)
                  \cup {MainText, OneLineText}
    /\ source = new(before)
    /\ program = <<>>
    /\ instruction = <<>>
    /\ pc = "parse_instruction"
    /\ result = NoResult
    /\ last = NoLast
    /\ steps = 0
    /\ stack = <<>> /\ variables = NoVariables /\ draw = <<>>
    /\ bound = NoVariables /\ overflow_checks = TRUE

\* parse_file returns res
Return(res) ==
    /\ pc' = "returned"
    /\ result' = res
    /\ UNCHANGED <<program, instruction>>

\* parse_instruction's loop after parse_expr returned Some(content) from
\* `position` and read_token returned join: the Expression is pushed, and on a
\* Newline or Eof the loop breaks and parse_file pushes the Instruction
Push(position, content, join, draw_result) ==
    /\ last' = [content |-> content, res |-> join,
                draw_result |-> draw_result.tag = "Ok" /\ draw_result.val]
    /\ IF draw_result.tag = "Err"
       THEN Return(draw_result) /\ steps' = steps
       ELSE /\ steps' = steps + 1
            /\ \E pushed \in {Append(instruction, [content |-> content,
                                                   draw_result |-> draw_result.val,
                                                   position |-> position])} :
                  IF breaks(join.val)
                  THEN program' = Append(program, pushed) /\ instruction' = <<>>
                  ELSE program' = program /\ instruction' = pushed
            /\ UNCHANGED <<pc, result>>

\* a pass of the loop in which parse_expr returns an expression
ParseExpression ==
    /\ pc = "parse_instruction"
    /\ \E expr \in {parse_expr(source)} :
          /\ expr.res.tag = "Ok" /\ expr.res.val.k # "None"
          /\ \E join \in {read_token(expr.tz)} :
                /\ source' = join.tz
                /\ IF join.res.tag = "Err"
                   THEN /\ Return(from(join.res))
                        /\ last' = [content |-> expr.res.val, res |-> join.res,
                                    draw_result |-> FALSE]
                        /\ steps' = steps
                   ELSE Push(source.position, expr.res.val, join.res,
                             join_draw_result(join.res.val))
    /\ UNCHANGED <<stack, variables, draw, bound, before, overflow_checks>>

\* a pass of the loop in which parse_expr returns None and the loop breaks:
\* parse_file pushes the Instruction if it holds an Expression; if not,
\* parse_instruction peeks, and returns None at Eof, so that parse_file returns
\* the Program, or calls itself
BreakLoop ==
    /\ pc = "parse_instruction"
    /\ \E expr \in {parse_expr(source)} :
          /\ expr.res.tag = "Ok" /\ expr.res.val.k = "None"
          /\ source' = expr.tz
          /\ IF instruction # <<>>
             THEN /\ program' = Append(program, instruction)
                  /\ instruction' = <<>>
                  /\ UNCHANGED <<pc, result>>
             ELSE \E peeked \in {peek_token(expr.tz).res} :
                     IF peeked.tag = "Err" THEN Return(from(peeked))
                     ELSE IF peeked.val.payload.p = "EOF" THEN Return(Ok(program))
                     ELSE UNCHANGED <<pc, result, program, instruction>>
    /\ last' = NoLast
    /\ UNCHANGED <<stack, variables, draw, bound, before, overflow_checks, steps>>

\* a pass of the loop in which parse_expr fails and the loop goes round again
ParseFails_retried ==
    /\ pc = "parse_instruction"
    /\ \E expr \in {parse_expr(source)} :
          /\ expr.res.tag = "Err"
          /\ source' = expr.tz
          /\ UNCHANGED <<pc, result, program, instruction>>
    /\ last' = NoLast
    /\ UNCHANGED <<stack, variables, draw, bound, before, overflow_checks, steps>>

\* a pass of the loop in which parse_expr fails: `?` returns the error from
\* parse_instruction and from parse_file
ParseFails ==
    /\ pc = "parse_instruction"
    /\ \E expr \in {parse_expr(source)} :
          /\ expr.res.tag = "Err"
          /\ source' = expr.tz
          /\ Return(expr.res)
    /\ last' = NoLast
    /\ UNCHANGED <<stack, variables, draw, bound, before, overflow_checks, steps>>

NextParse == ParseExpression \/ BreakLoop \/ ParseFails

SpecParse == InitParse /\ [][NextParse]_vars

-----------------------------------------------------------------------------
(* SpecArg: one call of parse_arg on a StringTokenizer over a text of up to *)
(* MaxLexemes lexemes; `before` keeps the text and `result` is the Result   *)
(* returned.                                                                *)

InitArg ==
    /\ before \in Texts({<<"a">>, <<"1">>, <<"$", "a">>, <<" ">>, <<"\n">>, <<"\r", "\n">>,
                         <<";">>, <<"=", ">">>, <<"(">>, <<")">>, <<"l", "e", "t", " ">>},
                        MaxLexemes)
    /\ source = new(before)
    /\ pc = "parse_arg"
    /\ result = NoResult
    /\ program = <<>> /\ instruction = <<>> /\ last = NoLast /\ steps = 0
    /\ stack = <<>> /\ variables = NoVariables /\ draw = <<>>
    /\ bound = NoVariables /\ overflow_checks = TRUE

\* parse_arg(&mut source)
ParseArg ==
    /\ pc = "parse_arg"
    /\ \E arg \in {parse_arg(source)} :
          /\ source' = arg.tz
          /\ result' = arg.res
    /\ pc' = "returned"
    /\ UNCHANGED <<stack, variables, draw, last, bound, before, overflow_checks,
                   program, instruction, steps>>

NextArg == ParseArg

SpecArg == InitArg /\ [][NextArg]_vars

-----------------------------------------------------------------------------
(* Claims *)

\* an Expression was evaluated in this step
Stepped == steps' = steps + 1
\* execute_instruction has just been entered
AtInstructionStart == pc = "instruction" /\ last = NoLast
Top(s) == s[Len(s)]
IsPrefix(s, t) == Len(s) <= Len(t) /\ SubSeq(t, 1, Len(s)) = s

\* C1: whenever the Runtime begins executing an Instruction the stack
\* is empty and every binding made so far is present with its last-assigned value.
C1_StackEmptyAtInstructionStart ==
    AtInstructionStart => (stack = <<>> /\ variables = bound)

\* C2: every Expression evaluated appends to the sink's command sequence exactly
\* the Resize of each ScreenResize it evaluated followed by one Line if its
\* draw_result is set and its value is a Line, and nothing in any other case
\* (draw_result unset, or a Scalar, Point, Vector or Void value), without error;
\* no other step of execute sends a command.
\* The ScreenResizes of the modelled Expressions, with literal or variable operands:
ScreensOf(content) ==
    IF content.k = "Screen" THEN <<content>>
    ELSE IF content.k = "Let" /\ content.init.k = "Parenthesized"
            /\ content.init.content.k = "Screen"
         THEN <<content.init.content>>
         ELSE <<>>
OperandMm(arg, vs) ==
    IF arg.k = "Literal" THEN Q(arg.num.v, 1) ELSE ScalarAsF64(vs[arg.name].s)
ExpectedResizes(content, vs) ==
    [i \in DOMAIN ScreensOf(content) |->
        Resize(OperandMm(ScreensOf(content)[i].a0, vs), OperandMm(ScreensOf(content)[i].a1, vs))]
ExpectedLine(l) ==
    IF l.draw_result /\ l.res.val.k = "Line"
    THEN <<Line(<<ScalarAsF64(l.res.val.p.x), ScalarAsF64(l.res.val.p.y)>>,
                <<FAdd(ScalarAsF64(l.res.val.p.x), ScalarAsF64(l.res.val.v.x)),
                  FAdd(ScalarAsF64(l.res.val.p.y), ScalarAsF64(l.res.val.v.y))>>)>>
    ELSE <<>>
C2_DrawCommandsInOrder ==
    [][ /\ ~Stepped => draw' = draw
        /\ (Stepped /\ last'.res.tag = "Ok") =>
              /\ draw' = draw \o ExpectedResizes(last'.content, variables) \o ExpectedLine(last')
              /\ pc' = "instruction"
        /\ (Stepped /\ last'.res.tag = "Err") => draw' = draw ]_vars
\* reached: a Resize and then a Line have been sent, and the Expression evaluated
\* last produced a Point with draw_result set, which sent nothing
C2_Witness ==
    /\ Len(draw) = 2 /\ draw[1].cmd = "Resize" /\ draw[2].cmd = "Line"
    /\ last.draw_result /\ last.res.tag = "Ok" /\ last.res.val.k = "Point"

\* C3: an Expression that fails ends execute with that error, keeping the commands
\* sent and the bindings made before; from then on nothing is evaluated, sent or
\* bound, the only step possible being the host's next execute call.
C3_StopsAtFirstError ==
    [][ /\ (Stepped /\ last'.res.tag = "Err") =>
              /\ pc' = "idle" /\ result' = last'.res
              /\ IsPrefix(draw, draw') /\ variables' = variables
        /\ (pc = "idle" /\ result.tag = "Err") =>
              /\ pc' = "execute" /\ ~Stepped
              /\ draw' = draw /\ variables' = variables ]_vars
\* reached: execute has returned an error after a command was sent and a
\* variable was bound
C3_Witness ==
    /\ pc = "idle" /\ result.tag = "Err" /\ last.res = result
    /\ Len(draw) > 0 /\ variables["a"] # Unbound

\* C4: a call of a two-operand built-in returns what the built-in's body yields
\* with the first argument as its first operand and the second as its second,
\* the arguments being literals or parenthesized calls, which are bound the same
\* way; a call that returns a Value leaves the stack as it found it.
IntegerValue(i) == VScalar(Integer(i))
ArgumentValue(arg) ==
    IF arg.k = "Literal" THEN Ok(IntegerValue(arg.num.v))
    ELSE Binary(arg.content.name, IntegerValue(arg.content.args[1].num.v),
                                  IntegerValue(arg.content.args[2].num.v))
FirstThenSecond(c) ==
    IF ArgumentValue(c.args[1]).tag # "Ok" THEN ArgumentValue(c.args[1])
    ELSE IF ArgumentValue(c.args[2]).tag # "Ok" THEN ArgumentValue(c.args[2])
    ELSE Binary(c.name, ArgumentValue(c.args[1]).val, ArgumentValue(c.args[2]).val)
BothLiterals(c) == c.args[1].k = "Literal" /\ c.args[2].k = "Literal"
C4_FirstArgumentIsFirstOperand ==
    pc = "returned" =>
        /\ result = FirstThenSecond(last.content)
        /\ result.tag = "Ok" => stack = before
        /\ (last.content.name = "sub" /\ BothLiterals(last.content)) =>
              result = Ok(IntegerValue(last.content.args[1].num.v - last.content.args[2].num.v))
        /\ (last.content.name \in {"pnt2", "vec2"} /\ BothLiterals(last.content)) =>
              /\ result.tag = "Ok"
              /\ result.val[IF last.content.name = "pnt2" THEN "p" ELSE "v"]
                    = [x |-> Integer(last.content.args[1].num.v),
                       y |-> Integer(last.content.args[2].num.v)]
\* reached: sub (sub 3 1) 3 has returned (3 - 1) - 3
C4_Witness ==
    /\ pc = "returned"
    /\ last.content = FunctionCall("sub",
            <<Parenthesized(FunctionCall("sub", <<ALit(3), ALit(1)>>)), ALit(3)>>)
    /\ result = Ok(IntegerValue(-1))

\* C5: a Let without initializer evaluated on a non-empty stack binds the name to
\* the top of the stack and returns that value; on an empty stack it fails with
\* StackUnderflow, ends execute and leaves the Environment unchanged.
C5_LetWithoutInitializer ==
    [][ (Stepped /\ last'.content.k = "Let" /\ last'.content.init = NoInit) =>
            IF stack = <<>>
            THEN /\ last'.res = Err(StackUnderflow)
                 /\ variables' = variables
                 /\ pc' = "idle" /\ result' = Err(StackUnderflow)
            ELSE /\ last'.res = Ok(Top(stack))
                 /\ variables' = [variables EXCEPT ![last'.content.name] = Top(stack)] ]_vars
\* reached: `let a` has bound a to a Point popped from the stack and returned it
C5_Witness ==
    /\ last.content = Let("a", NoInit) /\ last.res.tag = "Ok"
    /\ last.res.val.k = "Point" /\ variables["a"] = last.res.val

\* C6: the Environment holds for every name the value its most recent successful
\* Let returned; a reference to a name, as an expression or as an argument,
\* yields that value, or VariableNotFound if the name was never bound.
Referenced(n) == IF bound[n] # Unbound THEN Ok(bound[n]) ELSE Err(VariableNotFound(n))
C6_LastWriteWins ==
    [][ /\ variables' = bound'
        /\ (Stepped /\ last'.content.k = "Variable") =>
              last'.res = Referenced(last'.content.name)
        /\ (Stepped /\ last'.content.k = "Let" /\ last'.content.init.k = "Variable") =>
              /\ last'.res = Referenced(last'.content.init.name)
              /\ last'.res.tag = "Ok" => variables'[last'.content.name] = last'.res.val ]_vars
\* reached: three Expressions were evaluated: `let a (screen 1 1)` bound a to
\* Void, `let a 2` rebound it, and `$a` has returned 2
C6_Witness ==
    /\ steps = 3 /\ draw = <<Resize(Q(1, 1), Q(1, 1))>>
    /\ last.content = Variable("a") /\ last.res = Ok(IntegerValue(2))
    /\ variables["a"] = IntegerValue(2)

\* C7: no element of the stack is Void, so no pop returns Void: a Let without
\* initializer never binds or returns Void.
C7_NoVoidOnStack ==
    /\ \A i \in DOMAIN stack : stack[i].k # "Void"
    /\ (last.content.k = "Let" /\ last.content.init = NoInit /\ last.res.tag = "Ok") =>
          last.res.val.k # "Void"
\* reached: the second of two Expressions returned Void and only the first one's
\* value is on the stack
C7_Witness ==
    /\ steps = 2 /\ pc = "instruction"
    /\ last.res = Ok(Void) /\ Len(stack) = 1

\* the operands of a built-in called on a stack whose two topmost values are Scalars
TwoScalars == Len(before) >= 2 /\ before[Len(before) - 1].k = "Scalar" /\ Top(before).k = "Scalar"
OperandA == before[Len(before) - 1].s
OperandB == Top(before).s
BothInteger == OperandA.t = "Integer" /\ OperandB.t = "Integer"
Returned(names) == pc = "returned" /\ last.content.name \in names
Exact(name, a, b) ==
    CASE name = "add" -> a + b
      [] name = "sub" -> a - b
      [] name = "mul" -> a * b

\* C8: add, sub and mul on two Scalars return a Scalar that is an Integer exactly
\* when both operands are Integers, its value then being the exact a+b, a-b or a*b.
C8_ExactIntegerArithmetic ==
    (Returned({"add", "sub", "mul"}) /\ TwoScalars) =>
        /\ result.tag = "Ok" /\ result.val.k = "Scalar"
        /\ result.val.s.t = "Integer" <=> BothInteger
        /\ BothInteger => result.val.s.v = Exact(last.content.name, OperandA.v, OperandB.v)

\* C9: div on two Scalars returns a Scalar that is an Integer exactly when both
\* operands are Integers and the remainder of a by b is zero, its value then
\* being a / b, and a Float in every other case.
ZeroRemainder(a, b) == b # 0 /\ Abs(a) % Abs(b) = 0
C9_DivIntegerIffExact ==
    (Returned({"div"}) /\ TwoScalars) =>
        /\ result.tag = "Ok" /\ result.val.k = "Scalar"
        /\ result.val.s.t = "Integer" <=> (BothInteger /\ ZeroRemainder(OperandA.v, OperandB.v))
        /\ result.val.s.t = "Integer" =>
              result.val.s.v * OperandB.v = OperandA.v
        /\ result.val.s.t # "Integer" => result.val.s.t = "Float"

\* C10: sqrt on a Scalar s succeeds exactly when s >= 0, zero included, and then
\* returns a Float (3.0 for the Integer 9); for s < 0 it fails with
\* NonRealResult; on a value that is not a Scalar it fails with TypeError.
NonNegative(s) ==
    IF s.t = "Integer" THEN s.v >= 0
    ELSE \/ s.f.k = "q" /\ s.f.n >= 0
         \/ s.f.k = "inf" /\ s.f.s = 1
Negative(s) ==
    IF s.t = "Integer" THEN s.v < 0
    ELSE \/ s.f.k = "q" /\ s.f.n < 0
         \/ s.f.k = "inf" /\ s.f.s = -1
C10_SqrtDomain ==
    (Returned({"sqrt"}) /\ before # <<>>) =>
        IF Top(before).k = "Scalar"
        THEN /\ result.tag = "Ok" <=> NonNegative(Top(before).s)
             /\ result.tag = "Ok" => (result.val.k = "Scalar" /\ result.val.s.t = "Float")
             /\ Negative(Top(before).s) => result = Err(NonRealResult)
             /\ Top(before) = IntegerValue(0) => result = Ok(VScalar(Float(Zero(1))))
             /\ Top(before) = IntegerValue(9) => result = Ok(VScalar(Float(Q(3, 1))))
             /\ result.tag # "Panic"
        ELSE result = Err(TypeError)
\* reached: sqrt called on the Integer 9 has returned the Float 3.0
C10_Witness ==
    /\ Returned({"sqrt"}) /\ before # <<>> /\ Top(before) = IntegerValue(9)
    /\ result = Ok(VScalar(Float(Q(3, 1))))

\* the stack `before` without its top k values
Below(k) == SubSeq(before, 1, Len(before) - k)
FromTop(i) == before[Len(before) + 1 - i]

\* C11: add, sub, mul and div fail with TypeError exactly on the operand-type
\* pairs outside their tables, and a Value returned for a pair inside has the
\* type the table gives.
ResultType(name, a, b) ==
    CASE name = "add" /\ a = "Scalar" /\ b = "Scalar" -> "Scalar"
      [] name = "add" /\ a = "Vector" /\ b = "Vector" -> "Vector"
      [] name = "add" /\ a = "Point" /\ b = "Vector" -> "Point"
      [] name = "add" /\ a = "Vector" /\ b = "Point" -> "Point"
      [] name = "sub" /\ a = "Scalar" /\ b = "Scalar" -> "Scalar"
      [] name = "sub" /\ a = "Vector" /\ b = "Vector" -> "Vector"
      [] name = "sub" /\ a = "Point" /\ b = "Point" -> "Vector"
      [] name = "sub" /\ a = "Point" /\ b = "Vector" -> "Point"
      [] name = "mul" /\ a = "Scalar" /\ b = "Scalar" -> "Scalar"
      [] name = "mul" /\ a = "Vector" /\ b = "Scalar" -> "Vector"
      [] name = "mul" /\ a = "Scalar" /\ b = "Vector" -> "Vector"
      [] name = "div" /\ a = "Scalar" /\ b = "Scalar" -> "Scalar"
      [] name = "div" /\ a = "Vector" /\ b = "Scalar" -> "Vector"
      [] OTHER -> "TypeError"
C11_OperandTypeTable ==
    (Returned({"add", "sub", "mul", "div"}) /\ Len(before) >= 2) =>
        /\ result = Err(TypeError)
              <=> ResultType(last.content.name, FromTop(2).k, FromTop(1).k) = "TypeError"
        /\ result.tag = "Ok" =>
              result.val.k = ResultType(last.content.name, FromTop(2).k, FromTop(1).k)
        /\ result.tag = "Err" => result = Err(TypeError)
\* reached: add of a Vector and a Point has returned a Point
C11_Witness ==
    /\ Returned({"add"}) /\ before = <<StdVector, StdPoint>>
    /\ result.tag = "Ok" /\ result.val.k = "Point"

\* C12 as stated: jump called with a Point and above it a Vector pops both and
\* returns the Point displaced by the Vector.
C12_JumpPointVector ==
    (Returned({"jump"}) /\ Len(before) >= 2
        /\ FromTop(2).k = "Point" /\ FromTop(1).k = "Vector") =>
        /\ result = OkPoint(PointAddVector(FromTop(2).p, FromTop(1).v))
        /\ stack = Below(2)

\* C12 amended: jump takes three operands, a Point and above it two Scalars x
\* and y: it pops all three and returns the Point displaced by the Vector (x, y),
\* each coordinate being the Scalar sum the code computes; called with a Point
\* and above it a Vector it pops both and fails with TypeError.
C12_JumpPointScalars ==
    /\ (Returned({"jump"}) /\ Len(before) >= 3 /\ FromTop(3).k = "Point"
            /\ FromTop(2).k = "Scalar" /\ FromTop(1).k = "Scalar") =>
          /\ result = OkPoint(XY(ScalarAdd(FromTop(3).p.x, FromTop(2).s),
                                 ScalarAdd(FromTop(3).p.y, FromTop(1).s)))
          /\ stack = Below(3)
    /\ (Returned({"jump"}) /\ Len(before) >= 2
            /\ FromTop(2).k = "Point" /\ FromTop(1).k = "Vector") =>
          /\ result = Err(TypeError)
          /\ stack = Below(2)
\* reached: jump on the Point (1, 2) under the Scalars 1 and 1 has returned the
\* Point (2, 3) and emptied the stack
C12_Witness ==
    /\ Returned({"jump"})
    /\ before = <<StdPoint, IntegerValue(1), IntegerValue(1)>>
    /\ result = Ok(VPoint([x |-> Integer(2), y |-> Integer(3)]))
    /\ stack = <<>>

\* C13: every call of a built-in returns, with a Value or with an Error.
C13_BuiltinsNeverAbort ==
    Returned(functions \ {"line"}) => result.tag \in {"Ok", "Err"}

\* C20: a built-in of k operands called on at least k values removes exactly the
\* top k when it returns a Value or TypeError, and called on fewer than k values
\* fails with MissingArgument.
Operands(name) ==
    CASE name \in {"add", "sub", "mul", "div", "dot", "vec2", "pnt2"} -> 2
      [] name \in {"lvec", "x", "y", "sqrt"} -> 1
      [] name = "jump" -> 3
C20_PopsExactlyItsOperands ==
    Returned(functions \ {"line"}) =>
        IF Len(before) >= Operands(last.content.name)
        THEN (result.tag = "Ok" \/ result = Err(TypeError)) =>
                 stack = Below(Operands(last.content.name))
        ELSE result = Err(MissingArgument)

\* C14: an integer literal n evaluates, as an Expression and as an Argument, to
\* the Scalar Integer n if n <= i64::MAX and fails with IntLiteralTooLarge for
\* every larger n up to u64::MAX; a failed Let binds nothing.
LiteralOutcome(n) == IF n <= I64_MAX THEN Ok(IntegerValue(n)) ELSE Err(IntLiteralTooLarge)
C14_IntegerLiteralRange ==
    pc = "returned" =>
        /\ last.content.k = "Literal" =>
              /\ result = LiteralOutcome(last.content.num.v)
              /\ stack = before /\ variables = bound
        /\ (last.content.k = "Let" /\ last.content.init.k = "Literal") =>
              /\ result = LiteralOutcome(last.content.init.num.v)
              /\ variables = IF last.content.init.num.v <= I64_MAX
                             THEN [bound EXCEPT !["a"] = IntegerValue(last.content.init.num.v)]
                             ELSE bound
\* reached: the literal i64::MAX has evaluated to an Integer, as an Expression
C14_Witness ==
    /\ pc = "returned" /\ last.content = Literal(NumInteger(I64_MAX))
    /\ result = Ok(IntegerValue(I64_MAX))
\* reached: the literal i64::MAX + 1 has failed as the initializer of a Let
C14_WitnessTooLarge ==
    /\ pc = "returned" /\ last.content = Let("a", ArgLiteral(NumInteger(I64_MAX + 1)))
    /\ result = Err(IntLiteralTooLarge)

\* C15: a ScreenResize evaluates its width and then its height; if both are
\* Scalars it sends, after whatever the arguments themselves sent, exactly one
\* Resize carrying the width and the height, and yields Void; if both evaluate
\* but one is not a Scalar it fails with InvalidArgument and sends nothing of
\* its own; the stack is left as it was.
\* What an argument of the modelled ScreenResizes evaluates to, and what it sends:
ArgumentOutcome(arg) ==
    CASE arg.k = "Literal" -> LiteralOutcome(arg.num.v)
      [] arg.k = "Variable" -> Referenced(arg.name)
      [] arg.k = "Parenthesized" /\ arg.content.k = "Screen" -> Ok(Void)
      [] arg.k = "Parenthesized" /\ arg.content.k = "FunctionCall" ->
            Ok(VPoint([x |-> Integer(1), y |-> Integer(2)]))
ArgumentSends(arg) ==
    IF arg.k = "Parenthesized" /\ arg.content.k = "Screen"
    THEN <<Resize(Q(1, 1), Q(1, 1))>> ELSE <<>>
AsMm(v) == IF v.s.t = "Integer" THEN Q(v.s.v, 1) ELSE v.s.f
C15_ScreenResize ==
    (pc = "returned" /\ last.content.k = "Screen") =>
        /\ stack = before /\ variables = bound
        /\ IF ArgumentOutcome(last.content.a0).tag # "Ok"
           THEN /\ result = ArgumentOutcome(last.content.a0)
                /\ draw = ArgumentSends(last.content.a0)
           ELSE IF ArgumentOutcome(last.content.a1).tag # "Ok"
           THEN /\ result = ArgumentOutcome(last.content.a1)
                /\ draw = ArgumentSends(last.content.a0) \o ArgumentSends(last.content.a1)
           ELSE IF ArgumentOutcome(last.content.a0).val.k = "Scalar"
                   /\ ArgumentOutcome(last.content.a1).val.k = "Scalar"
           THEN /\ result = Ok(Void)
                /\ draw = <<Resize(AsMm(ArgumentOutcome(last.content.a0).val),
                                   AsMm(ArgumentOutcome(last.content.a1).val))>>
           ELSE /\ result = Err(InvalidArgument)
                /\ draw = ArgumentSends(last.content.a0) \o ArgumentSends(last.content.a1)
\* reached: `screen 3 $a` with a bound to the Float 0.5 has sent Resize(3, 0.5)
C15_Witness ==
    /\ pc = "returned" /\ last.content = Screen(ALit(3), ArgVariable("a"))
    /\ result = Ok(Void) /\ draw = <<Resize(Q(3, 1), Q(1, 2))>> /\ stack = before

\* C19: peek_token leaves the tokenizer's position and remaining input as they
\* were, however often it is called; repeated peeks return the same result, and
\* the read_token that follows a peek returns what the peek returned; once the
\* end marker was returned every later call returns it again.
AtEnd(r) == r.tag = "Ok" /\ r.val.payload.p = "EOF"
C19_PeekIsNonDestructive ==
    [][ /\ pc' = "peeked" => source' = source
        /\ (pc = "peeked" /\ pc' \in {"peeked", "read_peeked"}) => result' = result
        /\ AtEnd(result) => result' = result ]_vars
\* reached: a read_token made after a peek has returned the Variable token the
\* peek announced, and characters remain
C19_Witness ==
    /\ pc = "read_peeked" /\ result.tag = "Ok" /\ result.val.payload.p = "Variable"
    /\ source.chars # <<>>

\* C16: in parse_instruction the token read after an expression fixes the
\* Expression's draw_result: Pipe gives false and the Instruction goes on,
\* Concat gives true and the Instruction goes on, Newline and end of input give
\* true and end the Instruction; any other token makes parse_file fail with
\* UnexpectedToken carrying that token at its position, nothing being pushed;
\* and an Instruction is only ended by a Newline or the end of input.
Joined == last'.content.k # "None" /\ last'.res.tag = "Ok"
JoinIs(payloads) == Joined /\ last'.res.val.payload.p \in payloads
Parsed(draw_result) ==
    [content |-> last'.content, draw_result |-> draw_result, position |-> source.position]
Continues(draw_result) ==
    /\ instruction' = Append(instruction, Parsed(draw_result))
    /\ Len(program') = Len(program)
    /\ pc' = "parse_instruction"
Ends(draw_result) ==
    /\ instruction' = <<>>
    /\ Len(program') = Len(program) + 1
    /\ program'[Len(program')] = Append(instruction, Parsed(draw_result))
    /\ pc' = "parse_instruction"
FailsWith(join) ==
    /\ pc' = "returned" /\ result'.tag = "Err"
    /\ result'.err.kind.k = "UnexpectedToken"
    /\ result'.err.kind.token = join.payload
    /\ result'.err.at = join.position
    /\ Len(program') = Len(program) /\ Len(instruction') = Len(instruction)
C16_JoinFixesDrawResult ==
    [][ /\ JoinIs({"Pipe"}) => Continues(FALSE)
        /\ JoinIs({"Concat"}) => Continues(TRUE)
        /\ JoinIs({"Newline", "EOF"}) => Ends(TRUE)
        /\ (Joined /\ ~JoinIs({"Pipe", "Concat", "Newline", "EOF"})) => FailsWith(last'.res.val)
        /\ Len(program') # Len(program) =>
              \/ JoinIs({"Newline", "EOF"})
              \/ /\ last'.content.k = "None"
                 /\ read_token(source).res.tag = "Ok"
                 /\ read_token(source).res.val.payload.p \in {"Newline", "EOF"} ]_vars
\* reached: parse_file has returned a Program whose one Instruction holds an
\* Expression followed by a Pipe and an Expression followed by the end of input
C16_Witness ==
    /\ pc = "returned" /\ result.tag = "Ok" /\ Len(result.val) = 1
    /\ Len(result.val[1]) = 2
    /\ ~result.val[1][1].draw_result /\ result.val[1][2].draw_result
\* reached: the token after an expression was neither of the four
C16_WitnessUnexpected ==
    /\ pc = "returned" /\ result.tag = "Err" /\ last.content.k # "None"
    /\ last.res.tag = "Ok" /\ last.res.val.payload.p = "ParenR"

\* C17: a Program returned by parse_file holds exactly one Instruction per
\* non-blank line of the source text, in the order of the lines, each holding at
\* least one Expression and beginning on its line; blank lines give none, and
\* nothing but whitespace is left unread.
LineOf(text, i) == Cardinality({j \in 1..(i - 1) : text[j] = "\n"})
NonBlankLines(text) == {LineOf(text, i) : i \in {j \in DOMAIN text : text[j] \notin Whitespace}}
FirstLine(instr) == instr[1].position.line
C17_OneInstructionPerLine ==
    (pc = "returned" /\ result.tag = "Ok") =>
        /\ Len(result.val) = Cardinality(NonBlankLines(before))
        /\ \A i \in DOMAIN result.val : Len(result.val[i]) >= 1
        /\ \A i, j \in DOMAIN result.val :
              i < j => FirstLine(result.val[i]) < FirstLine(result.val[j])
        /\ {FirstLine(result.val[i]) : i \in DOMAIN result.val} = NonBlankLines(before)
        /\ \A i \in DOMAIN source.chars : source.chars[i] \in Whitespace

\* C18: parse_file on `pnt2 10 10; pnt2 20 20; line` returns a Program of three
\* Instructions.
C18_ThreeInstructions ==
    (before = OneLineText /\ pc = "returned") => (result.tag = "Ok" /\ Len(result.val) = 3)
\* C18, amended: parse_file on `pnt2 10 10; pnt2 20 20; line`, and on the program
\* text of main.rs, returns a Program of one Instruction, which holds the three
\* Expressions `pnt2 10 10`, `pnt2 20 20` and `line`, each with draw_result true.
Pnt2Of(n) ==
    FunctionCall(<<"p", "n", "t", "2">>, <<ArgLiteral(NumInteger(n)), ArgLiteral(NumInteger(n))>>)
C18_OneInstructionOfThree ==
    (before \in {OneLineText, MainText} /\ pc = "returned") =>
        /\ result.tag = "Ok"
        /\ Len(result.val) = 1
        /\ Len(result.val[1]) = 3
        /\ result.val[1][1].content = Pnt2Of(10)
        /\ result.val[1][2].content = Pnt2Of(20)
        /\ result.val[1][3].content = FunctionCall(<<"l", "i", "n", "e">>, <<>>)
        /\ \A i \in 1..3 : result.val[1][i].draw_result
\* reached: parse_file has returned on `pnt2 10 10; pnt2 20 20; line`
C18_Witness == before = OneLineText /\ pc = "returned" /\ steps = 3

\* C21: parse_arg on a text that begins with a ParenL fails with
\* ExpectedExpression when the next token is a ParenR, a Newline or the end of
\* input; when an inner expression is parsed and the token after it is not a
\* ParenR it fails with UnclosedDelimiter; and when that token is a ParenR it
\* returns Parenthesized(inner) with both parentheses consumed.
Opening == read_token(new(before))
AfterOpening == read_token(Opening.tz)
Inner == parse_expr(Opening.tz)
Closing == read_token(Inner.tz)
OpensParen == Opening.res.tag = "Ok" /\ Opening.res.val.payload.p = "ParenL"
NoInner == AfterOpening.res.tag = "Ok"
           /\ AfterOpening.res.val.payload.p \in {"ParenR", "Newline", "EOF"}
HasInner == Inner.res.tag = "Ok" /\ Inner.res.val.k # "None" /\ Closing.res.tag = "Ok"
FailedWith(kind) == result.tag = "Err" /\ result.err.kind.k = kind
C21_ParenthesizedArgument ==
    (pc = "returned" /\ OpensParen) =>
        /\ NoInner => FailedWith("ExpectedExpression")
        /\ (HasInner /\ Closing.res.val.payload.p # "ParenR") => FailedWith("UnclosedDelimiter")
        /\ (HasInner /\ Closing.res.val.payload.p = "ParenR") =>
              /\ result = Ok(Parenthesized(Inner.res.val))
              /\ source = Closing.tz
\* C21, amended: parse_arg on a text that begins with a ParenL fails with
\* ExpectedExpression when the next token is a Newline or the end of input, and
\* with UnexpectedToken(ParenR) when it is a ParenR; when an inner expression is
\* parsed and the token after it is not a ParenR it fails with
\* UnclosedDelimiter; and when that token is a ParenR it returns
\* Parenthesized(inner) with both parentheses consumed.
C21_EmptyParenthesesUnexpected ==
    (pc = "returned" /\ OpensParen) =>
        /\ (NoInner /\ AfterOpening.res.val.payload.p # "ParenR") =>
              FailedWith("ExpectedExpression")
        /\ (NoInner /\ AfterOpening.res.val.payload.p = "ParenR") =>
              /\ FailedWith("UnexpectedToken")
              /\ result.err.kind.token.p = "ParenR"
        /\ (HasInner /\ Closing.res.val.payload.p # "ParenR") => FailedWith("UnclosedDelimiter")
        /\ (HasInner /\ Closing.res.val.payload.p = "ParenR") =>
              /\ result = Ok(Parenthesized(Inner.res.val))
              /\ source = Closing.tz
\* reached: parse_arg has returned a parenthesized literal, and text is left
\* behind the ParenR
C21_Witness ==
    /\ pc = "returned" /\ OpensParen /\ result.tag = "Ok"
    /\ result.val.k = "Parenthesized" /\ result.val.content.k = "Literal"
    /\ source.chars # <<>>

\* C22: a FunctionCall with two arguments evaluates the first, then the second
\* in the Environment the first left, and pushes each value that is not Void.
\* If the first fails its error is returned and the second is not evaluated
\* (nothing is bound, sent or pushed); if the second fails its error is
\* returned with the first's value pushed; and a name no function has fails
\* with FunctionNotFound(name) only then, both values pushed.
\* What an argument of the modelled calls evaluates to in env, and what it binds:
OutcomeIn(arg, env) ==
    CASE arg.k = "Literal" -> LiteralOutcome(arg.num.v)
      [] arg.k = "Variable" ->
            IF env[arg.name] # Unbound THEN Ok(env[arg.name])
            ELSE Err(VariableNotFound(arg.name))
      [] arg.k = "Parenthesized" /\ arg.content.k = "Let" ->
            LiteralOutcome(arg.content.init.num.v)
      [] arg.k = "Parenthesized" /\ arg.content.k = "Screen" -> Ok(Void)
BindsIn(arg, env) ==
    IF arg.k = "Parenthesized" /\ arg.content.k = "Let"
    THEN [env EXCEPT ![arg.content.name] = OutcomeIn(arg, env).val]
    ELSE env
Pushes(res) == IF res.val.k = "Void" THEN <<>> ELSE <<res.val>>
LeftToRight(name, a0, a1, first, second) ==
    IF first.tag # "Ok"
    THEN result = first /\ stack = before /\ variables = bound /\ draw = <<>>
    ELSE IF second.tag # "Ok"
    THEN /\ result = second
         /\ stack = before \o Pushes(first)
         /\ variables = BindsIn(a0, bound)
         /\ draw = ArgumentSends(a0)
    ELSE name \notin functions =>
            /\ result = Err(FunctionNotFound(name))
            /\ stack = before \o Pushes(first) \o Pushes(second)
            /\ variables = BindsIn(a1, BindsIn(a0, bound))
            /\ draw = ArgumentSends(a0) \o ArgumentSends(a1)
C22_ArgumentsBeforeLookup ==
    (pc = "returned" /\ last.content.k = "FunctionCall" /\ Len(last.content.args) = 2) =>
        LeftToRight(last.content.name, last.content.args[1], last.content.args[2],
                    OutcomeIn(last.content.args[1], bound),
                    OutcomeIn(last.content.args[2], BindsIn(last.content.args[1], bound)))
\* reached: `undefined (let b 3) $b`, with b unbound before, has failed with
\* FunctionNotFound after both arguments were pushed
C22_Witness ==
    /\ pc = "returned"
    /\ last.content = FunctionCall("undefined", <<Parenthesized(Let("b", ALit(3))),
                                                 ArgVariable("b")>>)
    /\ bound["b"] = Unbound
    /\ result = Err(FunctionNotFound("undefined"))
    /\ stack = before \o <<IntegerValue(3), IntegerValue(3)>>
\* reached: `undefined $a (let b 3)`, with a unbound, has failed with
\* VariableNotFound and b is still unbound
C22_WitnessArgumentFails ==
    /\ pc = "returned"
    /\ last.content = FunctionCall("undefined", <<ArgVariable("a"),
                                                 Parenthesized(Let("b", ALit(3)))>>)
    /\ result = Err(VariableNotFound("a")) /\ variables["b"] = Unbound

\* C23: within an Instruction the value of a literal is pushed whatever its
\* draw_result flag; `sub b` written after an Expression that left the integer a
\* on top of the stack evaluates to a - b, and `sub` written after Expressions
\* that left a and above it b evaluates to a - b; in both the operands are
\* replaced on the stack by the result.
IsInteger(v) == v.k = "Scalar" /\ v.s.t = "Integer"
Replaces(k, v) ==
    /\ last'.res = Ok(IntegerValue(v))
    /\ stack' = Append(SubSeq(stack, 1, Len(stack) - k), IntegerValue(v))
C23_OperandsFromEarlierResults ==
    [][ (pc = "instruction" /\ Stepped) =>
          /\ last'.content.k = "Literal" =>
                stack' = Append(stack, IntegerValue(last'.content.num.v))
          /\ ( /\ last'.content.k = "FunctionCall" /\ last'.content.name = "sub"
               /\ Len(last'.content.args) = 1
               /\ Len(stack) >= 1 /\ IsInteger(Top(stack)) ) =>
                Replaces(1, Top(stack).s.v - last'.content.args[1].num.v)
          /\ ( /\ last'.content.k = "FunctionCall" /\ last'.content.name = "sub"
               /\ last'.content.args = <<>>
               /\ Len(stack) >= 2 /\ IsInteger(Top(stack))
               /\ IsInteger(stack[Len(stack) - 1]) ) =>
                Replaces(2, stack[Len(stack) - 1].s.v - Top(stack).s.v) ]_vars
\* reached: `1 => sub 3` has left -2 on the stack
C23_Witness ==
    /\ pc = "instruction" /\ steps = 2 /\ stack = <<IntegerValue(-2)>>
    /\ last = [content |-> FunctionCall("sub", <<ALit(3)>>), draw_result |-> TRUE,
               res |-> Ok(IntegerValue(-2))]
\* reached: `1 ; 3 ; sub` has left -2 on the stack
C23_WitnessConcat ==
    /\ pc = "instruction" /\ steps = 3 /\ stack = <<IntegerValue(-2)>>
    /\ last = [content |-> FunctionCall("sub", <<>>), draw_result |-> TRUE,
               res |-> Ok(IntegerValue(-2))]

\* C24: when an Expression fails, execute returns with the stack as the
\* failing Expression left it: the values pushed before it are still there
\* (with the arguments a call pushed, less the operands a built-in popped);
\* nothing touches the stack between that return and the first Expression of
\* the next execute call; and the stack is cleared only where an Instruction
\* ends without error.
Failing == pc = "instruction" /\ Stepped /\ last'.res.tag = "Err"
WithArguments(args) == stack \o [i \in 1..Len(args) |-> IntegerValue(args[i].num.v)]
LeftByFailure(content) ==
    CASE content.k = "FunctionCall" /\ content.name \in functions ->
            \E k \in 0..2 :
               /\ k <= Len(WithArguments(content.args))
               /\ stack' = SubSeq(WithArguments(content.args), 1,
                                  Len(WithArguments(content.args)) - k)
      [] content.k = "FunctionCall" /\ content.name \notin functions ->
            stack' = WithArguments(content.args)
      [] OTHER -> stack' = stack
C24_StackKeptAfterFailure ==
    [][ /\ Failing => (pc' = "idle" /\ LeftByFailure(last'.content))
        /\ pc \in {"idle", "execute"} => stack' = stack
        /\ (pc = "instruction" /\ ~Stepped) => (pc' = "execute" /\ stack' = <<>>) ]_vars
\* reached: an Instruction of a later execute call begins with the 1 on the
\* stack that an Instruction pushed before it failed
C24_Witness ==
    /\ AtInstructionStart /\ steps = 2 /\ stack = <<IntegerValue(1)>>

\* C25: parse_file cannot run for ever: every pass of parse_instruction's loop
\* after which parse_file goes on (also one that skips a blank line) either
\* leaves less input unread than it found, or is at the end of the input and
\* closes the Instruction in hand, after which the next pass returns; so
\* Remaining decreases at every pass and a text of n characters is parsed in at
\* most 2 * n + 2 passes; in every state before the return a pass can be made; what is
\* returned is a Program or an Error; every argument parse_arg returns has
\* consumed input; and when read_token fails on the input as it stands, the
\* pass ends the parse with that error as InvalidToken.
Unread == Len(source.chars)
Remaining == 2 * Unread + (IF instruction = <<>> THEN 0 ELSE 1)
ArgumentConsumes ==
    (parse_arg(source).res.tag = "Ok" /\ parse_arg(source).res.val.k # "None") =>
        Len(parse_arg(source).tz.chars) < Unread
PassCanBeMade ==
    pc # "returned" =>
        /\ pc = "parse_instruction"
        /\ parse_expr(source).res.tag \in {"Ok", "Err"}
        /\ Unread + Len(program) + Len(instruction) <= Len(before)
TokenErrorEnds ==
    (pc = "parse_instruction" /\ read_token(source).res.tag = "Err") =>
        /\ pc' = "returned"
        /\ result' = from(read_token(source).res)
C25_ParseFileTerminates ==
    /\ [][ /\ pc' = "parse_instruction" =>
                  /\ Remaining' < Remaining
                  /\ Unread' < Unread \/ (Unread = 0 /\ instruction # <<>>)
           /\ pc' = "returned" => result'.tag \in {"Ok", "Err"}
           /\ TokenErrorEnds ]_vars
    /\ [](PassCanBeMade /\ ArgumentConsumes)
\* reached: parse_file has returned a Program of two Instructions after it
\* skipped a blank line
C25_Witness ==
    /\ pc = "returned" /\ result.tag = "Ok" /\ Len(result.val) = 2
    /\ before[1] = "\n"

====
